---- MODULE Spec2Model ----
(***************************************************************************)
(* Kettlebell jerk tracker: the phase-classification state machine of      *)
(* utils/jerkFSM.ts (processJerkMovement and its detectors) with the       *)
(* geometry helpers of utils/poseDetection.ts.                             *)
(*                                                                         *)
(* Units.  Coordinates are pixels (integers).  Angles are centidegrees     *)
(* (1/100 degree): Math.atan2 is computed from a table of arctangents      *)
(* rounded to the centidegree, so a threshold of 160 degrees reads 16000.  *)
(* Scores and minConfidence are percent (0.3 reads 30), and so is          *)
(* rackHeightThreshold (0.1 reads 10).  Times are milliseconds.            *)
(***************************************************************************)
EXTENDS Integers, Sequences, FiniteSets, TLC

VARIABLES
    jerkFSMState,   \* the module-level singleton of jerkFSM.ts
    clock,          \* the value Date.now() returned last (never decreases)
    frame,          \* the last call: operation, pose, config, return value
    pre,            \* jerkFSMState as it was when the last call started
    calls,          \* number of calls made so far
    repTimes,       \* history: time and debounce window of every counted rep
    seenKnee        \* history: left knee angle of the last trusted frame

vars == <<jerkFSMState, clock, frame, pre, calls, repTimes, seenKnee>>

----------------------------------------------------------------------------
(* Bounds of the exploration *)

MaxCalls == 3

\* the longest history buffer handed to smoothPose
MaxHistory == 3

----------------------------------------------------------------------------
(* Arithmetic *)

Abs(n) == IF n < 0 THEN -n ELSE n

RECURSIVE Gcd(_, _)
Gcd(a, b) == IF b = 0 THEN a ELSE Gcd(b, a % b)

Deg(d) == d * 100

\* AtanTable[hi][lo + 1] is arctan(lo / hi) in centidegrees, 0 <= lo <= hi <= 10
AtanTable ==
    <<
       << 0, 4500 >>,
       << 0, 2657, 4500 >>,
       << 0, 1843, 3369, 4500 >>,
       << 0, 1404, 2657, 3687, 4500 >>,
       << 0, 1131, 2180, 3096, 3866, 4500 >>,
       << 0, 946, 1843, 2657, 3369, 3981, 4500 >>,
       << 0, 813, 1595, 2320, 2974, 3554, 4060, 4500 >>,
       << 0, 713, 1404, 2056, 2657, 3201, 3687, 4119, 4500 >>,
       << 0, 634, 1253, 1843, 2396, 2905, 3369, 3787, 4163, 4500 >>,
       << 0, 571, 1131, 1670, 2180, 2657, 3096, 3499, 3866, 4199, 4500 >>
    >>

\* arctan(lo / hi) for 0 <= lo <= hi, hi > 0
Octant(hi, lo) == AtanTable[hi \div Gcd(hi, lo)][lo \div Gcd(hi, lo) + 1]

\* arctan(ay / ax) for ax, ay >= 0, not both 0
FirstQuadrant(ax, ay) ==
    IF ay > ax THEN 9000 - Octant(ay, ax) ELSE Octant(ax, ay)

\* the first-quadrant angle th carried to the quadrant of (dx, dy)
Quadrant(dy, dx, th) ==
    IF dy >= 0
    THEN (IF dx >= 0 THEN th ELSE 18000 - th)
    ELSE (IF dx >= 0 THEN -th ELSE th - 18000)

\* Math.atan2(dy, dx) in centidegrees, in (-18000, 18000]
atan2(dy, dx) ==
    IF dx = 0 /\ dy = 0 THEN 0
    ELSE Quadrant(dy, dx, FirstQuadrant(Abs(dx), Abs(dy)))

\* if (angle > 180.0) angle = 360.0 - angle
Reflect(angle) == IF angle > 18000 THEN 36000 - angle ELSE angle

\* calculateAngle(a, b, c): the angle at b, in [0, 18000]
calculateAngle(a, b, c) ==
    Reflect(Abs(atan2(c.y - b.y, c.x - b.x) - atan2(a.y - b.y, a.x - b.x)))

----------------------------------------------------------------------------
(* Poses *)

NullPose == [isNull |-> TRUE]

NoKeypoint == [found |-> FALSE]

\* getKeypoint: Array.find by name.  pose.keypoints is kept as a map from
\* landmark name to landmark: names are unique within a pose of the detector,
\* so the first keypoint of a name is the only one.
getKeypoint(pose, keypointName) ==
    IF pose = NullPose \/ "keypoints" \notin DOMAIN pose THEN NoKeypoint
    ELSE IF keypointName \in DOMAIN pose.keypoints
         THEN pose.keypoints[keypointName]
         ELSE NoKeypoint

\* keypoint.score || 0
ScoreOf(keypoint) == IF "score" \in DOMAIN keypoint THEN keypoint.score ELSE 0

requiredKeypoints ==
    << "left_shoulder", "right_shoulder", "left_elbow", "right_elbow",
       "left_wrist", "right_wrist", "left_hip", "right_hip",
       "left_knee", "right_knee", "left_ankle", "right_ankle" >>

Range(s) == {s[i] : i \in DOMAIN s}

\* variant: a landmark without a score is taken as trusted
hasConfidentKeypointsScoreOptional(pose, keypointNames, minConfidence) ==
    IF pose = NullPose \/ "keypoints" \notin DOMAIN pose \/ DOMAIN pose.keypoints = {}
    THEN FALSE
    ELSE \A name \in Range(keypointNames) :
            LET keypoint == getKeypoint(pose, name)
            IN  ~(keypoint = NoKeypoint
                    \/ ("score" \in DOMAIN keypoint /\ keypoint.score < minConfidence))

hasConfidentKeypoints(pose, keypointNames, minConfidence) ==
    IF pose = NullPose \/ "keypoints" \notin DOMAIN pose \/ DOMAIN pose.keypoints = {}
    THEN FALSE
    ELSE \A name \in Range(keypointNames) :
            LET keypoint == getKeypoint(pose, name)
            IN  ~(keypoint = NoKeypoint \/ ScoreOf(keypoint) < minConfidence)

----------------------------------------------------------------------------
(* Configuration *)

defaultJerkFSMConfig ==
    [ minConfidence          |-> 30,
      rackHeightThreshold    |-> 10,
      dipDepthThreshold      |-> 15,
      lockoutHeightThreshold |-> 50,
      lockoutAngleThreshold  |-> 160,
      minRepDuration         |-> 500 ]

----------------------------------------------------------------------------
(* The state machine *)

initialJerkFSMState ==
    [ currentPhase       |-> "unknown",
      previousPhase      |-> "unknown",
      repCount           |-> 0,
      lastRepTime        |-> 0,
      kneeAngle          |-> 0,
      leftArmAngle       |-> 0,
      rightArmAngle      |-> 0,
      leftWristHeight    |-> 0,
      rightWristHeight   |-> 0,
      confidence         |-> 0,
      lastTransitionTime |-> 0,
      isValidRep         |-> FALSE ]

isPhase(phase, targetPhase) == phase = targetPhase

\* Each detector reads and writes jerkFSMState: it takes the state s and
\* returns its verdict with the state it leaves behind.
Verdict(r, s) == [res |-> r, st |-> s]

detectRackPosition(s, pose, config) ==
    LET leftShoulder  == getKeypoint(pose, "left_shoulder")
        rightShoulder == getKeypoint(pose, "right_shoulder")
        leftWrist     == getKeypoint(pose, "left_wrist")
        rightWrist    == getKeypoint(pose, "right_wrist")
    IN  IF NoKeypoint \in {leftShoulder, rightShoulder, leftWrist, rightWrist}
        THEN Verdict(FALSE, s)
        ELSE LET leftWristToShoulderDiff       == Abs(leftWrist.y - leftShoulder.y)
                 rightWristToShoulderDiff      == Abs(rightWrist.y - rightShoulder.y)
                 leftWristToShoulderHorizDiff  == Abs(leftWrist.x - leftShoulder.x)
                 rightWristToShoulderHorizDiff == Abs(rightWrist.x - rightShoulder.x)
                 s1 == [s EXCEPT !.leftWristHeight  = leftShoulder.y - leftWrist.y,
                                 !.rightWristHeight = rightShoulder.y - rightWrist.y]
             IN  Verdict(
                   /\ leftWristToShoulderDiff * 100
                         < config.rackHeightThreshold * leftShoulder.y
                   /\ rightWristToShoulderDiff * 100
                         < config.rackHeightThreshold * rightShoulder.y
                   /\ leftWristToShoulderHorizDiff < 50
                   /\ rightWristToShoulderHorizDiff < 50,
                   s1)

detectDipPhase(s, pose, config) ==
    LET leftHip   == getKeypoint(pose, "left_hip")
        leftKnee  == getKeypoint(pose, "left_knee")
        leftAnkle == getKeypoint(pose, "left_ankle")
    IN  IF NoKeypoint \in {leftHip, leftKnee, leftAnkle}
        THEN Verdict(FALSE, s)
        ELSE LET kneeAngle     == calculateAngle(leftHip, leftKnee, leftAnkle)
                 prevKneeAngle == s.kneeAngle
                 s1 == [s EXCEPT !.kneeAngle = kneeAngle]
             IN  Verdict(
                   /\ prevKneeAngle - kneeAngle > Deg(config.dipDepthThreshold)
                   /\ kneeAngle < Deg(170),
                   s1)

\* variant: the drive predicate has no upper bound on the arm angles
detectDrivePhaseAnyExtension(s, pose, config) ==
    LET leftHip       == getKeypoint(pose, "left_hip")
        leftKnee      == getKeypoint(pose, "left_knee")
        leftAnkle     == getKeypoint(pose, "left_ankle")
        leftShoulder  == getKeypoint(pose, "left_shoulder")
        leftElbow     == getKeypoint(pose, "left_elbow")
        leftWrist     == getKeypoint(pose, "left_wrist")
        rightShoulder == getKeypoint(pose, "right_shoulder")
        rightElbow    == getKeypoint(pose, "right_elbow")
        rightWrist    == getKeypoint(pose, "right_wrist")
    IN  IF NoKeypoint \in {leftHip, leftKnee, leftAnkle, leftShoulder, leftElbow,
                           leftWrist, rightShoulder, rightElbow, rightWrist}
        THEN Verdict(FALSE, s)
        ELSE LET kneeAngle     == calculateAngle(leftHip, leftKnee, leftAnkle)
                 prevKneeAngle == s.kneeAngle
                 leftArmAngle  == calculateAngle(leftShoulder, leftElbow, leftWrist)
                 rightArmAngle == calculateAngle(rightShoulder, rightElbow, rightWrist)
                 s1 == [s EXCEPT !.kneeAngle     = kneeAngle,
                                 !.leftArmAngle  = leftArmAngle,
                                 !.rightArmAngle = rightArmAngle]
             IN  Verdict(
                   /\ kneeAngle - prevKneeAngle > Deg(5)
                   /\ kneeAngle > Deg(160)
                   /\ leftArmAngle > Deg(90)
                   /\ rightArmAngle > Deg(90),
                   s1)

detectDrivePhase(s, pose, config) ==
    LET leftHip       == getKeypoint(pose, "left_hip")
        leftKnee      == getKeypoint(pose, "left_knee")
        leftAnkle     == getKeypoint(pose, "left_ankle")
        leftShoulder  == getKeypoint(pose, "left_shoulder")
        leftElbow     == getKeypoint(pose, "left_elbow")
        leftWrist     == getKeypoint(pose, "left_wrist")
        rightShoulder == getKeypoint(pose, "right_shoulder")
        rightElbow    == getKeypoint(pose, "right_elbow")
        rightWrist    == getKeypoint(pose, "right_wrist")
    IN  IF NoKeypoint \in {leftHip, leftKnee, leftAnkle, leftShoulder, leftElbow,
                           leftWrist, rightShoulder, rightElbow, rightWrist}
        THEN Verdict(FALSE, s)
        ELSE LET kneeAngle     == calculateAngle(leftHip, leftKnee, leftAnkle)
                 prevKneeAngle == s.kneeAngle
                 leftArmAngle  == calculateAngle(leftShoulder, leftElbow, leftWrist)
                 rightArmAngle == calculateAngle(rightShoulder, rightElbow, rightWrist)
                 s1 == [s EXCEPT !.kneeAngle     = kneeAngle,
                                 !.leftArmAngle  = leftArmAngle,
                                 !.rightArmAngle = rightArmAngle]
             IN  Verdict(
                   /\ kneeAngle - prevKneeAngle > Deg(5)
                   /\ kneeAngle > Deg(160)
                   /\ leftArmAngle > Deg(90) /\ leftArmAngle < Deg(150)
                   /\ rightArmAngle > Deg(90) /\ rightArmAngle < Deg(150),
                   s1)

detectLockoutPhase(s, pose, config) ==
    LET leftShoulder  == getKeypoint(pose, "left_shoulder")
        rightShoulder == getKeypoint(pose, "right_shoulder")
        leftElbow     == getKeypoint(pose, "left_elbow")
        rightElbow    == getKeypoint(pose, "right_elbow")
        leftWrist     == getKeypoint(pose, "left_wrist")
        rightWrist    == getKeypoint(pose, "right_wrist")
    IN  IF NoKeypoint \in {leftShoulder, rightShoulder, leftElbow, rightElbow,
                           leftWrist, rightWrist}
        THEN Verdict(FALSE, s)
        ELSE LET leftArmAngle  == calculateAngle(leftShoulder, leftElbow, leftWrist)
                 rightArmAngle == calculateAngle(rightShoulder, rightElbow, rightWrist)
                 leftWristHeight  == leftShoulder.y - leftWrist.y
                 rightWristHeight == rightShoulder.y - rightWrist.y
                 wristVerticalDifference == Abs(leftWrist.y - rightWrist.y)
                 areWristsParallel  == wristVerticalDifference < 20
                 isLeftArmVertical  == Abs(leftWrist.x - leftShoulder.x) < 30
                 isRightArmVertical == Abs(rightWrist.x - rightShoulder.x) < 30
                 s1 == [s EXCEPT !.leftArmAngle     = leftArmAngle,
                                 !.rightArmAngle    = rightArmAngle,
                                 !.leftWristHeight  = leftWristHeight,
                                 !.rightWristHeight = rightWristHeight]
             IN  Verdict(
                   /\ leftArmAngle > Deg(config.lockoutAngleThreshold)
                   /\ rightArmAngle > Deg(config.lockoutAngleThreshold)
                   /\ leftWristHeight > config.lockoutHeightThreshold
                   /\ rightWristHeight > config.lockoutHeightThreshold
                   /\ areWristsParallel
                   /\ isLeftArmVertical
                   /\ isRightArmVertical,
                   s1)

\* variant: lockout is latched, a frame cannot leave it
DeterminePhaseLatched(s, pose, config) ==
    LET lock == detectLockoutPhase(s, pose, config)
    IN  IF lock.res \/ s.currentPhase = "lockout"
        THEN [phase |-> "lockout", st |-> lock.st]
        ELSE LET drive == detectDrivePhase(lock.st, pose, config)
             IN  IF drive.res THEN [phase |-> "drive", st |-> drive.st]
                 ELSE LET dip == detectDipPhase(drive.st, pose, config)
                      IN  IF dip.res THEN [phase |-> "dip", st |-> dip.st]
                          ELSE LET rack == detectRackPosition(dip.st, pose, config)
                               IN  IF rack.res
                                   THEN [phase |-> "rack", st |-> rack.st]
                                   ELSE [phase |-> "unknown", st |-> rack.st]

\* jerkFSM.ts 316-335: the else-if chain; a detector runs only when every
\* detector before it said no.  Returns the phase and the state left behind.
DeterminePhase(s, pose, config) ==
    LET lock == detectLockoutPhase(s, pose, config)
    IN  IF lock.res THEN [phase |-> "lockout", st |-> lock.st]
        ELSE LET drive == detectDrivePhase(lock.st, pose, config)
             IN  IF drive.res THEN [phase |-> "drive", st |-> drive.st]
                 ELSE LET dip == detectDipPhase(drive.st, pose, config)
                      IN  IF dip.res THEN [phase |-> "dip", st |-> dip.st]
                          ELSE LET rack == detectRackPosition(dip.st, pose, config)
                               IN  IF rack.res
                                   THEN [phase |-> "rack", st |-> rack.st]
                                   ELSE [phase |-> "unknown", st |-> rack.st]

\* variant: a counted lockout adds two
CountRepTwice(s, now, config) ==
    IF now - s.lastRepTime > config.minRepDuration
    THEN [s EXCEPT !.repCount    = s.repCount + 2,
                   !.lastRepTime = now,
                   !.isValidRep  = TRUE]
    ELSE s

\* variant: the debounce window is closed at its end (>= for >)
CountRepInclusive(s, now, config) ==
    IF now - s.lastRepTime >= config.minRepDuration
    THEN [s EXCEPT !.repCount    = s.repCount + 1,
                   !.lastRepTime = now,
                   !.isValidRep  = TRUE]
    ELSE s

\* variant: no debounce
CountRepAlways(s, now, config) ==
    [s EXCEPT !.repCount    = s.repCount + 1,
              !.lastRepTime = now,
              !.isValidRep  = TRUE]

\* variant: a counted lockout leaves the validity flag alone
CountRepSilent(s, now, config) ==
    IF now - s.lastRepTime > config.minRepDuration
    THEN [s EXCEPT !.repCount    = s.repCount + 1,
                   !.lastRepTime = now]
    ELSE s

\* variant: the debounce window is twice minRepDuration
CountRepDoubleWindow(s, now, config) ==
    IF now - s.lastRepTime > 2 * config.minRepDuration
    THEN [s EXCEPT !.repCount    = s.repCount + 1,
                   !.lastRepTime = now,
                   !.isValidRep  = TRUE]
    ELSE s

\* jerkFSM.ts 351-358: entering lockout counts when the debounce allows it
CountRep(s, now, config) ==
    IF now - s.lastRepTime > config.minRepDuration
    THEN [s EXCEPT !.repCount    = s.repCount + 1,
                   !.lastRepTime = now,
                   !.isValidRep  = TRUE]
    ELSE s

\* jerkFSM.ts 360-373: the switch over the phase that was left
ValidTransition(previousPhase, newPhase) ==
    CASE previousPhase = "rack"  -> isPhase(newPhase, "dip")
      [] previousPhase = "dip"   -> isPhase(newPhase, "drive")
      [] previousPhase = "drive" -> isPhase(newPhase, "lockout")
      [] OTHER                   -> FALSE

\* variant: the transition time is stamped only when the phase is not lockout
HandleTransitionLateStamp(s, newPhase, now, config) ==
    LET previousPhase == s.currentPhase
        s1 == [s EXCEPT !.previousPhase = previousPhase,
                        !.currentPhase  = newPhase]
    IN  IF newPhase # previousPhase
        THEN IF isPhase(newPhase, "lockout")
             THEN CountRep(s1, now, config)
             ELSE [s1 EXCEPT !.lastTransitionTime = now,
                             !.isValidRep =
                                 ValidTransition(previousPhase, newPhase)]
        ELSE s1

\* variant: the validity flag is recomputed on every frame
HandleTransitionEveryFrame(s, newPhase, now, config) ==
    LET previousPhase == s.currentPhase
        s1 == [s EXCEPT !.previousPhase = previousPhase,
                        !.currentPhase  = newPhase]
    IN  IF newPhase # previousPhase
        THEN LET s2 == [s1 EXCEPT !.lastTransitionTime = now]
             IN  IF isPhase(newPhase, "lockout")
                 THEN CountRep(s2, now, config)
                 ELSE [s2 EXCEPT !.isValidRep =
                                    ValidTransition(previousPhase, newPhase)]
        ELSE [s1 EXCEPT !.isValidRep = ValidTransition(previousPhase, newPhase)]

\* variant: a frame that stays in lockout tries again to count
HandleTransitionRetryInLockout(s, newPhase, now, config) ==
    LET previousPhase == s.currentPhase
        s1 == [s EXCEPT !.previousPhase = previousPhase,
                        !.currentPhase  = newPhase]
    IN  IF newPhase # previousPhase
        THEN LET s2 == [s1 EXCEPT !.lastTransitionTime = now]
             IN  IF isPhase(newPhase, "lockout")
                 THEN CountRep(s2, now, config)
                 ELSE [s2 EXCEPT !.isValidRep =
                                    ValidTransition(previousPhase, newPhase)]
        ELSE IF isPhase(newPhase, "lockout") THEN CountRep(s1, now, config) ELSE s1

\* variant: the entry into lockout is not stamped as a transition
HandleTransitionUnstampedLockout(s, newPhase, now, config) ==
    LET previousPhase == s.currentPhase
        s1 == [s EXCEPT !.previousPhase = previousPhase,
                        !.currentPhase  = newPhase]
    IN  IF newPhase # previousPhase
        THEN IF isPhase(newPhase, "lockout")
             THEN CountRep(s1, now, config)
             ELSE [s1 EXCEPT !.lastTransitionTime = now,
                             !.isValidRep =
                                ValidTransition(previousPhase, newPhase)]
        ELSE s1

\* jerkFSM.ts 337-375
HandleTransition(s, newPhase, now, config) ==
    LET previousPhase == s.currentPhase
        s1 == [s EXCEPT !.previousPhase = previousPhase,
                        !.currentPhase  = newPhase]
    IN  IF newPhase # previousPhase
        THEN LET s2 == [s1 EXCEPT !.lastTransitionTime = now]
             IN  IF isPhase(newPhase, "lockout")
                 THEN CountRep(s2, now, config)
                 ELSE [s2 EXCEPT !.isValidRep =
                                    ValidTransition(previousPhase, newPhase)]
        ELSE s1

\* processJerkMovement(pose, config) at time now: the state it leaves and
\* the number it returns
processJerkMovement(s, pose, config, now) ==
    IF ~hasConfidentKeypoints(pose, requiredKeypoints, config.minConfidence)
    THEN [st |-> s, ret |-> s.repCount]
    ELSE LET d  == DeterminePhase(s, pose, config)
             s1 == HandleTransition(d.st, d.phase, now, config)
         IN  [st |-> s1, ret |-> s1.repCount]

----------------------------------------------------------------------------
(* The frames fed to the classifier *)

Keypoint(name, x, y, score) == [name |-> name, x |-> x, y |-> y, score |-> score]

\* elbow and wrist offsets from the shoulder (left side; mirrored on the right)
ArmShapes ==
    [ lock     |-> [e |-> <<0, -60>>,   w |-> <<0, -120>>],
      lockwide |-> [e |-> <<20, -60>>,  w |-> <<40, -120>>],
      locklow  |-> [e |-> <<0, -20>>,   w |-> <<0, -40>>],
      mid      |-> [e |-> <<40, -40>>,  w |-> <<40, -120>>],
      midv     |-> [e |-> <<20, -20>>,  w |-> <<20, -100>>],
      rack     |-> [e |-> <<0, 60>>,    w |-> <<20, 0>>],
      rackmid  |-> [e |-> <<20, 10>>,   w |-> <<40, 0>>],
      down     |-> [e |-> <<0, 60>>,    w |-> <<0, 120>> ] ]

\* a standing body: shoulders at y = 200, hips 400, knees 500, ankles 600;
\* knee is how far the knees are pushed forward of the hip-ankle line
MkPose(la, ra, knee, score) ==
    LET l == ArmShapes[la]
        r == ArmShapes[ra]
    IN  [ keypoints |->
            [ nose           |-> Keypoint("nose", 300, 150, score),
              left_shoulder  |-> Keypoint("left_shoulder", 340, 200, score),
              right_shoulder |-> Keypoint("right_shoulder", 260, 200, score),
              left_elbow     |-> Keypoint("left_elbow", 340 + l.e[1], 200 + l.e[2], score),
              right_elbow    |-> Keypoint("right_elbow", 260 - r.e[1], 200 + r.e[2], score),
              left_wrist     |-> Keypoint("left_wrist", 340 + l.w[1], 200 + l.w[2], score),
              right_wrist    |-> Keypoint("right_wrist", 260 - r.w[1], 200 + r.w[2], score),
              left_hip       |-> Keypoint("left_hip", 330, 400, score),
              right_hip      |-> Keypoint("right_hip", 270, 400, score),
              left_knee      |-> Keypoint("left_knee", 330 + knee, 500, score),
              right_knee     |-> Keypoint("right_knee", 270 - knee, 500, score),
              left_ankle     |-> Keypoint("left_ankle", 330, 600, score),
              right_ankle    |-> Keypoint("right_ankle", 270, 600, score) ] ]

\* the pose without the landmark of that name
DropKeypoint(pose, name) ==
    [pose EXCEPT !.keypoints =
        [n \in DOMAIN pose.keypoints \ {name} |-> pose.keypoints[n]]]

\* the pose with that landmark's score replaced
WithScore(pose, name, score) ==
    [pose EXCEPT !.keypoints[name].score = score]

\* the pose with that landmark carrying no score at all
WithoutScore(pose, name) ==
    [pose EXCEPT !.keypoints[name] =
        [f \in {"name", "x", "y"} |-> pose.keypoints[name][f]]]

\* arms (left, right) and knee offset of the fully trusted poses
Postures ==
    ({<<"lock", "lock">>} \X {0, 50})
        \cup ({<<"lockwide", "lockwide">>, <<"locklow", "locklow">>,
               <<"lock", "mid">>, <<"lock", "locklow">>} \X {0})
        \cup ({<<"mid", "mid">>, <<"down", "down">>} \X {0, 10, 20, 50})
        \cup ({<<"rack", "rack">>} \X {0, 10, 50})
        \cup ({<<"midv", "midv">>, <<"rackmid", "rackmid">>} \X {0, 50})

\* a pose that would count a repetition, were every landmark trusted
LockoutPose == MkPose("lock", "lock", 0, 90)

\* one trusted pose per phase: lockout, drive (knees straightening from the
\* initial cache), rack, none of them, and bent knees in rack
PhasePoses ==
    { LockoutPose, MkPose("mid", "mid", 0, 90), MkPose("rack", "rack", 0, 90),
      MkPose("down", "down", 0, 90), MkPose("rack", "rack", 50, 90) }

\* every landmark scored 40, and one landmark exactly at the default threshold
MarginalPoses ==
    {MkPose("lock", "lock", 0, 40), WithScore(LockoutPose, "left_wrist", 30)}

DefectivePoses ==
    {NullPose, [score |-> 90], [keypoints |-> << >>]}
        \cup {DropKeypoint(LockoutPose, n) : n \in Range(requiredKeypoints)}
        \cup {WithScore(LockoutPose, n, 29) : n \in Range(requiredKeypoints)}
        \cup {WithoutScore(LockoutPose, n) : n \in Range(requiredKeypoints)}

\* a dip threshold below zero, where the dip detector can answer yes
EagerDipConfig == [defaultJerkFSMConfig EXCEPT !.dipDepthThreshold = -1]

\* stricter on confidence, looser on lockout, shorter debounce
LooseConfig ==
    [ minConfidence          |-> 50,
      rackHeightThreshold    |-> 10,
      dipDepthThreshold      |-> 15,
      lockoutHeightThreshold |-> 30,
      lockoutAngleThreshold  |-> 120,
      minRepDuration         |-> 200 ]

Configs == {defaultJerkFSMConfig, EagerDipConfig, LooseConfig}

\* how far Date.now() moves between calls
ClockSteps == {0, 200, 600}

Call(pose, config, dt) == [pose |-> pose, config |-> config, dt |-> dt]

\* calls that exercise counting and transitions
CountInputs ==
    {Call(p, c, dt) : p \in PhasePoses, c \in Configs, dt \in ClockSteps}
        \cup {Call(p, defaultJerkFSMConfig, 200) :
                p \in {NullPose, WithScore(LockoutPose, "left_knee", 29)}}

\* calls that exercise the confidence guard, with two trusted poses to move
\* the machine in between
GuardInputs ==
    {Call(p, defaultJerkFSMConfig, 600) : p \in {LockoutPose, MkPose("rack", "rack", 0, 90)}}
        \cup {Call(p, c, 200) : p \in MarginalPoses, c \in {defaultJerkFSMConfig, LooseConfig}}
        \cup {Call(p, defaultJerkFSMConfig, 200) : p \in DefectivePoses}

\* calls that exercise the detectors' geometry
ClassifyInputs ==
    {Call(MkPose(p[1][1], p[1][2], p[2], 90), c, 200) :
        p \in Postures, c \in {defaultJerkFSMConfig, LooseConfig}}

----------------------------------------------------------------------------
(* The system *)

\* the left knee angle the frame shows (hip-knee-ankle)
KneeAngleOf(pose) ==
    calculateAngle(getKeypoint(pose, "left_hip"), getKeypoint(pose, "left_knee"),
                   getKeypoint(pose, "left_ankle"))

\* The module has just been loaded; Date.now() counts milliseconds since
\* 1970, so the clock is far beyond any debounce window from the start.
Init ==
    /\ jerkFSMState = initialJerkFSMState
    /\ clock = 1000000
    /\ frame = [op |-> "init"]
    /\ pre = initialJerkFSMState
    /\ calls = 0
    /\ repTimes = << >>
    /\ seenKnee = 0

\* one delivered pose: PoseDetectionComponent calls processJerkMovement
ProcessFrame(inputs) ==
    /\ calls < MaxCalls
    /\ \E c \in inputs :
          LET now == clock + c.dt
              r   == processJerkMovement(jerkFSMState, c.pose, c.config, now)
          IN  /\ jerkFSMState' = r.st
              /\ clock' = now
              /\ frame' = [op |-> "process", pose |-> c.pose, config |-> c.config,
                           ret |-> r.ret]
              /\ pre' = jerkFSMState
              /\ repTimes' = IF r.st.repCount > jerkFSMState.repCount
                             THEN Append(repTimes,
                                         [time   |-> now,
                                          window |-> c.config.minRepDuration])
                             ELSE repTimes
              /\ seenKnee' = IF hasConfidentKeypoints(c.pose, requiredKeypoints,
                                                      c.config.minConfidence)
                             THEN KneeAngleOf(c.pose)
                             ELSE seenKnee
    /\ calls' = calls + 1

\* variant: the Reset button clears the count and leaves the rest
ResetJerkFSMCountOnly ==
    /\ calls < MaxCalls
    /\ \E dt \in ClockSteps : clock' = clock + dt
    /\ jerkFSMState' = [jerkFSMState EXCEPT !.repCount = 0]
    /\ frame' = [op |-> "reset"]
    /\ pre' = jerkFSMState
    /\ repTimes' = << >>
    /\ seenKnee' = 0
    /\ calls' = calls + 1

\* resetJerkFSM, from the Reset button
ResetJerkFSM ==
    /\ calls < MaxCalls
    /\ \E dt \in ClockSteps : clock' = clock + dt
    /\ jerkFSMState' = initialJerkFSMState
    /\ frame' = [op |-> "reset"]
    /\ pre' = jerkFSMState
    /\ repTimes' = << >>
    /\ seenKnee' = 0
    /\ calls' = calls + 1

CountFrame == ProcessFrame(CountInputs)

GuardFrame == ProcessFrame(GuardInputs)

ClassifyFrame == ProcessFrame(ClassifyInputs)

Next == CountFrame \/ ResetJerkFSM

Spec == Init /\ [][Next]_vars

NextGuard == GuardFrame

SpecGuard == Init /\ [][NextGuard]_vars

NextClassify == ClassifyFrame

SpecClassify == Init /\ [][NextClassify]_vars

\* frames of an athlete who holds and leaves the lockout, default
\* configuration, one frame more than MaxCalls
MaxDwell == 4

DwellInputs ==
    {Call(p, defaultJerkFSMConfig, dt) :
        p \in {LockoutPose, MkPose("rack", "rack", 0, 90), MkPose("mid", "mid", 0, 90),
               WithScore(LockoutPose, "left_knee", 29)},
        dt \in {200, 600}}

\* one delivered pose, as ProcessFrame, up to MaxDwell of them
DwellFrame ==
    /\ calls < MaxDwell
    /\ \E c \in DwellInputs :
          \E now \in {clock + c.dt} :
          \E r \in {processJerkMovement(jerkFSMState, c.pose, c.config, now)} :
              /\ jerkFSMState' = r.st
              /\ clock' = now
              /\ frame' = [op |-> "process", pose |-> c.pose, config |-> c.config,
                           ret |-> r.ret]
              /\ repTimes' = IF r.st.repCount > jerkFSMState.repCount
                             THEN Append(repTimes,
                                         [time   |-> now,
                                          window |-> c.config.minRepDuration])
                             ELSE repTimes
              /\ seenKnee' = IF hasConfidentKeypoints(c.pose, requiredKeypoints,
                                                      c.config.minConfidence)
                             THEN KneeAngleOf(c.pose)
                             ELSE seenKnee
    /\ pre' = jerkFSMState
    /\ calls' = calls + 1

NextDwell == DwellFrame

SpecDwell == Init /\ [][NextDwell]_vars

----------------------------------------------------------------------------
(* The canonical cycle, fed twice: rack, dip, drive, lockout at fixed      *)
(* offsets from the time the first frame arrives.                          *)

\* offsets of the eight frames from the first one, in milliseconds
CycleTimes == <<0, 100, 300, 450, 500, 600, 800, 1100>>

\* the geometry of the frames of one cycle: wrists at the shoulders with
\* straight legs, the same with the knees pushed forward (a knee drop of
\* 22.62 or 53.13 degrees), arms half extended with straight legs, arms
\* straight overhead
CycleGeometry ==
    << {MkPose("rack", "rack", 0, 90), MkPose("rack", "rack", 0, 40),
        MkPose("rackmid", "rackmid", 0, 90)},
       {MkPose("rack", "rack", 20, 90), MkPose("rack", "rack", 50, 90),
        MkPose("rackmid", "rackmid", 50, 90)},
       {MkPose("mid", "mid", 0, 90), MkPose("mid", "mid", 0, 40),
        MkPose("midv", "midv", 0, 90)},
       {LockoutPose, MkPose("lock", "lock", 0, 40), MkPose("lock", "lock", 0, 30)} >>

CyclePoses(k) == CycleGeometry[((k - 1) % 4) + 1]

\* what Date.now() returns for the first frame: wall-clock time, or a clock
\* a test harness has set to 0, or to either side of the first debounce
\* window's end
CycleStarts == {0, 50, 51, 1000000}

InitCycle ==
    /\ jerkFSMState = initialJerkFSMState
    /\ \E t0 \in CycleStarts :
          /\ clock = t0
          /\ frame = [op |-> "init", origin |-> t0]
    /\ pre = initialJerkFSMState
    /\ calls = 0
    /\ repTimes = << >>
    /\ seenKnee = 0

\* the next frame of the cycle is delivered, default configuration
CycleFrame ==
    /\ calls < Len(CycleTimes)
    /\ \E pose \in CyclePoses(calls + 1) :
          LET now == frame.origin + CycleTimes[calls + 1]
              r   == processJerkMovement(jerkFSMState, pose, defaultJerkFSMConfig, now)
          IN  /\ jerkFSMState' = r.st
              /\ clock' = now
              /\ frame' = [op |-> "process", pose |-> pose,
                           config |-> defaultJerkFSMConfig, ret |-> r.ret,
                           origin |-> frame.origin]
              /\ pre' = jerkFSMState
              /\ repTimes' = IF r.st.repCount > jerkFSMState.repCount
                             THEN Append(repTimes,
                                         [time   |-> now,
                                          window |-> defaultJerkFSMConfig.minRepDuration])
                             ELSE repTimes
              /\ seenKnee' = KneeAngleOf(pose)
    /\ calls' = calls + 1

NextCycle == CycleFrame

SpecCycle == InitCycle /\ [][NextCycle]_vars

----------------------------------------------------------------------------
(* Two runs side by side: the frames as they are, and the same frames with *)
(* every coordinate multiplied by k.  The second run's classifier state is *)
(* carried in frame.twin.                                                  *)

\* the pose with every landmark coordinate multiplied by k
ScalePose(pose, k) ==
    [pose EXCEPT !.keypoints =
        [n \in DOMAIN pose.keypoints |->
            [pose.keypoints[n] EXCEPT !.x = @ * k, !.y = @ * k]]]

ScaleFactors == {2, 3}

InitScale ==
    /\ jerkFSMState = initialJerkFSMState
    /\ clock = 1000000
    /\ \E k \in ScaleFactors :
          frame = [op |-> "init", k |-> k, twin |-> initialJerkFSMState]
    /\ pre = initialJerkFSMState
    /\ calls = 0
    /\ repTimes = << >>
    /\ seenKnee = 0

\* the frames of the two runs, pairwise: a posture and the same posture
\* scaled by k
ScaleInputs(k) ==
    { [pose   |-> MkPose(p[1][1], p[1][2], p[2], 90),
       scaled |-> ScalePose(MkPose(p[1][1], p[1][2], p[2], 90), k)] : p \in Postures }

\* one frame delivered to both runs at the same time, default configuration
ScaleFrame ==
    /\ calls < MaxCalls
    /\ \E c \in ScaleInputs(frame.k), now \in {clock + 600} :
        \E r  \in {processJerkMovement(jerkFSMState, c.pose, defaultJerkFSMConfig, now)},
           r2 \in {processJerkMovement(frame.twin, c.scaled, defaultJerkFSMConfig, now)} :
              /\ jerkFSMState' = r.st
              /\ clock' = now
              /\ frame' = [op |-> "process", pose |-> c.pose,
                           config |-> defaultJerkFSMConfig, ret |-> r.ret,
                           k |-> frame.k, twin |-> r2.st]
              /\ pre' = jerkFSMState
              /\ repTimes' = IF r.st.repCount > jerkFSMState.repCount
                             THEN Append(repTimes,
                                         [time   |-> now,
                                          window |-> defaultJerkFSMConfig.minRepDuration])
                             ELSE repTimes
              /\ seenKnee' = KneeAngleOf(c.pose)
    /\ calls' = calls + 1

NextScale == ScaleFrame

SpecScale == InitScale /\ [][NextScale]_vars

----------------------------------------------------------------------------
(* Temporal smoothing: smoothKeypoint, confidenceWeightedSmoothKeypoint    *)
(* and smoothPose of utils/poseDetection.ts.                               *)
(*                                                                         *)
(* Here the order of the landmarks matters, so pose.keypoints is a         *)
(* sequence, as in the source.  Numbers are exact rationals <<n, d>> in    *)
(* lowest terms, d > 0: the rounding of IEEE doubles is not modelled.      *)
(* Scores, minConfidence and smoothingFactor stay in percent.              *)

Num(n) == <<n, 1>>

\* a division by zero gives no fraction: 0/0 is NaN, written <<0, 0>>, and
\* n/0 an infinity, written <<1, 0>> or <<-1, 0>>; sums and products of
\* these stay of that kind, as they do in floating point
RatNorm(n, d) ==
    IF d = 0 THEN <<IF n > 0 THEN 1 ELSE IF n < 0 THEN -1 ELSE 0, 0>>
    ELSE <<n \div Gcd(Abs(n), d), d \div Gcd(Abs(n), d)>>

RatAdd(a, b) == RatNorm(a[1] * b[2] + b[1] * a[2], a[2] * b[2])

RatMul(a, b) == RatNorm(a[1] * b[1], a[2] * b[2])

\* a / b for b > 0
RatDiv(a, b) == RatNorm(a[1] * b[2], a[2] * b[1])

\* variant: the factor is clamped from below only
ClampFactorBelowOnly(smoothingFactor) ==
    IF smoothingFactor < 0 THEN Num(0) ELSE RatNorm(smoothingFactor, 100)

\* Math.max(0, Math.min(1, smoothingFactor)), as a rational
ClampFactor(smoothingFactor) ==
    IF smoothingFactor < 0 THEN Num(0)
    ELSE IF smoothingFactor > 100 THEN Num(1)
    ELSE RatNorm(smoothingFactor, 100)

\* 1 - factor
OneMinus(factor) == RatAdd(Num(1), RatMul(Num(-1), factor))

\* current * (1 - factor) + avg * factor
Blend(current, avg, factor) ==
    RatAdd(RatMul(current, OneMinus(factor)), RatMul(avg, factor))

\* previousKeypoints.reduce((sum, kp) => sum + kp.x, 0), and the same for y
RECURSIVE SumOf(_, _)
SumOf(keypoints, axis) ==
    IF keypoints = << >> THEN Num(0)
    ELSE RatAdd(SumOf(Tail(keypoints), axis), Head(keypoints)[axis])

\* variant: the moved landmark loses its score
MovedWithoutScore(currentKeypoint, smoothedX, smoothedY) ==
    [name |-> currentKeypoint.name, x |-> smoothedX, y |-> smoothedY]

\* { ...currentKeypoint, x: smoothedX, y: smoothedY }
Moved(currentKeypoint, smoothedX, smoothedY) ==
    [currentKeypoint EXCEPT !.x = smoothedX, !.y = smoothedY]

\* variant: a negative factor is used as it is
smoothKeypointNegativeFactor(currentKeypoint, previousKeypoints, smoothingFactor) ==
    IF previousKeypoints = << >>
    THEN currentKeypoint
    ELSE Moved(currentKeypoint,
               Blend(currentKeypoint.x,
                     RatDiv(SumOf(previousKeypoints, "x"), Num(Len(previousKeypoints))),
                     IF smoothingFactor > 100 THEN Num(1)
                     ELSE RatNorm(smoothingFactor, 100)),
               Blend(currentKeypoint.y,
                     RatDiv(SumOf(previousKeypoints, "y"), Num(Len(previousKeypoints))),
                     IF smoothingFactor > 100 THEN Num(1)
                     ELSE RatNorm(smoothingFactor, 100)))

smoothKeypoint(currentKeypoint, previousKeypoints, smoothingFactor) ==
    IF previousKeypoints = << >> \/ smoothingFactor <= 0
    THEN currentKeypoint
    ELSE Moved(currentKeypoint,
               Blend(currentKeypoint.x,
                     RatDiv(SumOf(previousKeypoints, "x"), Num(Len(previousKeypoints))),
                     ClampFactor(smoothingFactor)),
               Blend(currentKeypoint.y,
                     RatDiv(SumOf(previousKeypoints, "y"), Num(Len(previousKeypoints))),
                     ClampFactor(smoothingFactor)))

\* variant: any sample that has a score passes the filter
IsConfidentAnyScore(kp, minConfidence) == "score" \in DOMAIN kp

\* kp.score !== undefined && kp.score >= minConfidence
IsConfident(kp, minConfidence) ==
    "score" \in DOMAIN kp /\ kp.score >= minConfidence

\* kp.score || minConfidence
WeightOf(kp, minConfidence) ==
    IF "score" \in DOMAIN kp /\ kp.score # 0 THEN Num(kp.score) ELSE Num(minConfidence)

\* the forEach loop: sum of the weights
RECURSIVE TotalWeight(_, _)
TotalWeight(keypoints, minConfidence) ==
    IF keypoints = << >> THEN Num(0)
    ELSE RatAdd(TotalWeight(Tail(keypoints), minConfidence),
                WeightOf(Head(keypoints), minConfidence))

\* the forEach loop: sum of the weighted coordinates
RECURSIVE WeightedSum(_, _, _)
WeightedSum(keypoints, axis, minConfidence) ==
    IF keypoints = << >> THEN Num(0)
    ELSE RatAdd(WeightedSum(Tail(keypoints), axis, minConfidence),
                RatMul(Head(keypoints)[axis], WeightOf(Head(keypoints), minConfidence)))

\* the weighted average of the confident samples and the current landmark
WeightedAverage(currentKeypoint, confidentKeypoints, axis, minConfidence) ==
    RatDiv(WeightedSum(Append(confidentKeypoints, currentKeypoint), axis, minConfidence),
           TotalWeight(Append(confidentKeypoints, currentKeypoint), minConfidence))

\* lines 260-291, once the confident samples are known to be non-empty
WeightedBlend(currentKeypoint, confidentKeypoints, smoothingFactor, minConfidence) ==
    Moved(currentKeypoint,
          Blend(currentKeypoint.x,
                WeightedAverage(currentKeypoint, confidentKeypoints, "x", minConfidence),
                ClampFactor(smoothingFactor)),
          Blend(currentKeypoint.y,
                WeightedAverage(currentKeypoint, confidentKeypoints, "y", minConfidence),
                ClampFactor(smoothingFactor)))

confidenceWeightedSmoothKeypoint(currentKeypoint, previousKeypoints, smoothingFactor, minConfidence) ==
    IF previousKeypoints = << >> \/ smoothingFactor <= 0
    THEN currentKeypoint
    ELSE IF SelectSeq(previousKeypoints, LAMBDA kp : IsConfident(kp, minConfidence)) = << >>
         THEN currentKeypoint
         ELSE WeightedBlend(currentKeypoint,
                            SelectSeq(previousKeypoints,
                                      LAMBDA kp : IsConfident(kp, minConfidence)),
                            smoothingFactor, minConfidence)

\* pose.keypoints.find(kp => kp.name === name) says whether one was found
HasKeypoint(pose, name) ==
    \E i \in DOMAIN pose.keypoints : pose.keypoints[i].name = name

\* pose.keypoints.find(kp => kp.name === name): the first of that name
FindKeypoint(pose, name) ==
    pose.keypoints[CHOOSE i \in DOMAIN pose.keypoints :
                      /\ pose.keypoints[i].name = name
                      /\ \A j \in 1..(i - 1) : pose.keypoints[j].name # name]

\* variant: only the newest pose of the buffer that shows the landmark is used
RECURSIVE PreviousKeypointsNewestOnly(_, _)
PreviousKeypointsNewestOnly(previousPoses, name) ==
    IF previousPoses = << >> THEN << >>
    ELSE IF HasKeypoint(previousPoses[Len(previousPoses)], name)
         THEN << FindKeypoint(previousPoses[Len(previousPoses)], name) >>
         ELSE PreviousKeypointsNewestOnly(SubSeq(previousPoses, 1, Len(previousPoses) - 1),
                                          name)

\* variant: a previous pose without the landmark counts as a sample at (0, 0)
RECURSIVE PreviousKeypointsZeroFilled(_, _)
PreviousKeypointsZeroFilled(previousPoses, name) ==
    IF previousPoses = << >> THEN << >>
    ELSE IF HasKeypoint(Head(previousPoses), name)
         THEN << FindKeypoint(Head(previousPoses), name) >>
                 \o PreviousKeypointsZeroFilled(Tail(previousPoses), name)
         ELSE << [name |-> name, x |-> Num(0), y |-> Num(0)] >>
                 \o PreviousKeypointsZeroFilled(Tail(previousPoses), name)

\* lines 319-321: the landmark of that name in every previous pose that has it
RECURSIVE PreviousKeypoints(_, _)
PreviousKeypoints(previousPoses, name) ==
    IF previousPoses = << >> THEN << >>
    ELSE IF HasKeypoint(Head(previousPoses), name)
         THEN << FindKeypoint(Head(previousPoses), name) >>
                 \o PreviousKeypoints(Tail(previousPoses), name)
         ELSE PreviousKeypoints(Tail(previousPoses), name)

smoothPose(currentPose, previousPoses, smoothingFactor, useConfidenceWeighting, minConfidence) ==
    IF \/ previousPoses = << >>
       \/ "keypoints" \notin DOMAIN currentPose
       \/ currentPose.keypoints = << >>
    THEN currentPose
    ELSE [currentPose EXCEPT !.keypoints =
            [i \in DOMAIN currentPose.keypoints |->
                IF useConfidenceWeighting
                THEN confidenceWeightedSmoothKeypoint(
                         currentPose.keypoints[i],
                         PreviousKeypoints(previousPoses, currentPose.keypoints[i].name),
                         smoothingFactor, minConfidence)
                ELSE smoothKeypoint(
                         currentPose.keypoints[i],
                         PreviousKeypoints(previousPoses, currentPose.keypoints[i].name),
                         smoothingFactor)]]

\* a landmark of a pose to be smoothed, with and without a score
ScoredKeypoint(name, x, y, score) ==
    [name |-> name, x |-> Num(x), y |-> Num(y), score |-> score]

UnscoredKeypoint(name, x, y) == [name |-> name, x |-> Num(x), y |-> Num(y)]

\* the poses handed to smoothPose as the current one: two landmarks in either
\* order, no landmark, no keypoints at all.  Names are unique within a pose.
CurrentPoses ==
    { [keypoints |-> << ScoredKeypoint("left_wrist", 100, 200, 90),
                        ScoredKeypoint("nose", 50, 60, 40) >>],
      [keypoints |-> << UnscoredKeypoint("nose", 50, 60),
                        ScoredKeypoint("left_wrist", 100, 200, 20) >>],
      [keypoints |-> << >>],
      [score |-> 90] }

\* the poses the history buffer is filled from
HistoryPoses ==
    { [keypoints |-> << ScoredKeypoint("left_wrist", 130, 170, 90),
                        ScoredKeypoint("nose", 80, 60, 90) >>],
      [keypoints |-> << ScoredKeypoint("left_wrist", 160, 260, 40) >>],
      [keypoints |-> << ScoredKeypoint("left_wrist", 70, 230, 20),
                        UnscoredKeypoint("nose", 20, 90) >>],
      [keypoints |-> << ScoredKeypoint("nose", 56, 66, 50),
                        UnscoredKeypoint("left_wrist", 103, 203) >>] }

Histories == UNION {[1..n -> HistoryPoses] : n \in 0..MaxHistory}

\* smoothing factors in percent, in and out of range
SmoothingFactors == {-50, 0, 50, 100, 150}

\* one call of smoothPose on a detected pose
SmoothOnce ==
    /\ frame.op = "init"
    /\ \E currentPose \in CurrentPoses, previousPoses \in Histories,
          smoothingFactor \in SmoothingFactors,
          useConfidenceWeighting \in BOOLEAN, minConfidence \in {30, 50} :
          frame' = [op |-> "smooth",
                    currentPose |-> currentPose,
                    previousPoses |-> previousPoses,
                    smoothingFactor |-> smoothingFactor,
                    useConfidenceWeighting |-> useConfidenceWeighting,
                    minConfidence |-> minConfidence,
                    ret |-> smoothPose(currentPose, previousPoses, smoothingFactor,
                                       useConfidenceWeighting, minConfidence)]
    /\ UNCHANGED <<jerkFSMState, clock, pre, calls, repTimes, seenKnee>>

NextSmooth == SmoothOnce

SpecSmooth == Init /\ [][NextSmooth]_vars

\* samples of one landmark handed to the two keypoint filters directly,
\* with scores from 0 up and without a score, at most MaxSamples of history
MaxSamples == 2

RangeCurrent ==
    { ScoredKeypoint("left_wrist", 100, 200, 90), ScoredKeypoint("left_wrist", 100, 200, 0),
      UnscoredKeypoint("left_wrist", 100, 200) }

RangeSamples ==
    { ScoredKeypoint("left_wrist", 130, 170, 90), ScoredKeypoint("left_wrist", 160, 260, 40),
      ScoredKeypoint("left_wrist", 70, 230, 0), UnscoredKeypoint("left_wrist", 20, 90) }

\* one call of smoothKeypoint or confidenceWeightedSmoothKeypoint with a
\* smoothing factor within [0, 1]
RangeOnce ==
    /\ frame.op = "init"
    /\ \E currentKeypoint \in RangeCurrent,
          previousKeypoints \in UNION {[1..n -> RangeSamples] : n \in 0..MaxSamples},
          smoothingFactor \in {0, 25, 50, 100},
          useConfidenceWeighting \in BOOLEAN, minConfidence \in {0, 30} :
          frame' = [op |-> "keypoint",
                    currentKeypoint |-> currentKeypoint,
                    previousKeypoints |-> previousKeypoints,
                    smoothingFactor |-> smoothingFactor,
                    useConfidenceWeighting |-> useConfidenceWeighting,
                    minConfidence |-> minConfidence,
                    ret |-> IF useConfidenceWeighting
                            THEN confidenceWeightedSmoothKeypoint(
                                     currentKeypoint, previousKeypoints,
                                     smoothingFactor, minConfidence)
                            ELSE smoothKeypoint(currentKeypoint, previousKeypoints,
                                                smoothingFactor)]
    /\ UNCHANGED <<jerkFSMState, clock, pre, calls, repTimes, seenKnee>>

NextRange == RangeOnce

SpecRange == Init /\ [][NextRange]_vars

----------------------------------------------------------------------------
(* Form analysis.  Products with 0.4, 0.2 and 0.1 are compared after        *)
(* multiplying both sides by ten; angles are in centidegrees.               *)

FormIssue(id, phase, message, severity, bodyPart) ==
    [id |-> id, phase |-> phase, message |-> message, severity |-> severity,
     bodyPart |-> bodyPart]

\* if (failed) issues.push(issue)
PushIf(failed, issue) == IF failed THEN <<issue>> ELSE << >>

\* variant: a landmark is missed only when it is absent
UndetectedAbsentOnly(pose, names, minConfidence) ==
    \E name \in names : getKeypoint(pose, name) = NoKeypoint

\* some landmark of names is absent or scored below minConfidence:
\* !keypoint || (keypoint.score || 0) < minConfidence
Undetected(pose, names, minConfidence) ==
    \E name \in names :
        \/ getKeypoint(pose, name) = NoKeypoint
        \/ ScoreOf(getKeypoint(pose, name)) < minConfidence

RackLandmarks ==
    {"left_shoulder", "right_shoulder", "left_elbow", "right_elbow",
     "left_wrist", "right_wrist", "left_hip", "right_hip"}

\* the four checks of the rack position, on landmarks that passed the guard
RackIssues(leftShoulder, rightShoulder, leftElbow, rightElbow, leftWrist, rightWrist, leftHip, rightHip) ==
    PushIf(10 * Abs(leftElbow.x - leftHip.x) > 4 * Abs(leftShoulder.x - rightShoulder.x),
           FormIssue("rack_left_elbow_position", "rack",
                     "Keep left elbow closer to your body", "moderate", "left_elbow"))
    \o PushIf(10 * Abs(rightElbow.x - rightHip.x) > 4 * Abs(leftShoulder.x - rightShoulder.x),
           FormIssue("rack_right_elbow_position", "rack",
                     "Keep right elbow closer to your body", "moderate", "right_elbow"))
    \o PushIf(10 * Abs(leftWrist.y - leftShoulder.y) > 2 * Abs(leftShoulder.x - rightShoulder.x),
           FormIssue("rack_left_wrist_height", "rack",
                     "Adjust left kettlebell to shoulder height", "moderate", "left_wrist"))
    \o PushIf(10 * Abs(rightWrist.y - rightShoulder.y) > 2 * Abs(leftShoulder.x - rightShoulder.x),
           FormIssue("rack_right_wrist_height", "rack",
                     "Adjust right kettlebell to shoulder height", "moderate", "right_wrist"))

analyzeRackPosition(pose, minConfidence) ==
    IF Undetected(pose, RackLandmarks, minConfidence) THEN << >>
    ELSE RackIssues(getKeypoint(pose, "left_shoulder"), getKeypoint(pose, "right_shoulder"),
                    getKeypoint(pose, "left_elbow"), getKeypoint(pose, "right_elbow"),
                    getKeypoint(pose, "left_wrist"), getKeypoint(pose, "right_wrist"),
                    getKeypoint(pose, "left_hip"), getKeypoint(pose, "right_hip"))

DipLandmarks ==
    {"left_hip", "right_hip", "left_knee", "right_knee",
     "left_ankle", "right_ankle", "left_shoulder", "right_shoulder"}

\* the angle at the hip midpoint between the shoulder midpoint and the point
\* 100 pixels straight above the hip midpoint.  The three points are taken
\* at twice their size, which keeps the midpoints whole and the angle as is.
TorsoAngle(leftShoulder, rightShoulder, leftHip, rightHip) ==
    calculateAngle([x |-> leftShoulder.x + rightShoulder.x, y |-> leftShoulder.y + rightShoulder.y],
                   [x |-> leftHip.x + rightHip.x, y |-> leftHip.y + rightHip.y],
                   [x |-> leftHip.x + rightHip.x, y |-> leftHip.y + rightHip.y - 200])

\* the four checks of the dip, on the angles measured
DipIssues(leftKneeAngle, rightKneeAngle, torsoAngle) ==
    PushIf(leftKneeAngle > Deg(160),
           FormIssue("dip_too_shallow", "dip",
                     "Deepen your dip for more power", "moderate", "knees"))
    \o PushIf(leftKneeAngle < Deg(120),
           FormIssue("dip_too_deep", "dip",
                     "Dip is too deep, aim for quarter squat", "moderate", "knees"))
    \o PushIf(Abs(leftKneeAngle - rightKneeAngle) > Deg(15),
           FormIssue("dip_uneven_knees", "dip",
                     "Keep knees evenly bent", "moderate", "knees"))
    \o PushIf(torsoAngle < Deg(75),
           FormIssue("dip_leaning_forward", "dip",
                     "Keep torso more upright", "high", "torso"))

analyzeDipPhase(pose, minConfidence) ==
    IF Undetected(pose, DipLandmarks, minConfidence) THEN << >>
    ELSE DipIssues(calculateAngle(getKeypoint(pose, "left_hip"), getKeypoint(pose, "left_knee"),
                                  getKeypoint(pose, "left_ankle")),
                   calculateAngle(getKeypoint(pose, "right_hip"), getKeypoint(pose, "right_knee"),
                                  getKeypoint(pose, "right_ankle")),
                   TorsoAngle(getKeypoint(pose, "left_shoulder"), getKeypoint(pose, "right_shoulder"),
                              getKeypoint(pose, "left_hip"), getKeypoint(pose, "right_hip")))

DriveLandmarks ==
    {"left_shoulder", "right_shoulder", "left_elbow", "right_elbow",
     "left_wrist", "right_wrist", "left_hip", "right_hip",
     "left_knee", "right_knee"}

\* the angle at the knee between the hip and the point 100 pixels below the knee
LegAngle(hip, knee) ==
    calculateAngle(hip, knee, [x |-> knee.x, y |-> knee.y + 100])

\* the two checks of the drive, on the angles measured
DriveIssues(leftArmAngle, rightArmAngle, leftKneeAngle, rightKneeAngle) ==
    PushIf(Abs(leftArmAngle - rightArmAngle) > Deg(20),
           FormIssue("drive_uneven_arms", "drive",
                     "Extend arms evenly", "moderate", "arms"))
    \o PushIf(leftKneeAngle < Deg(160) \/ rightKneeAngle < Deg(160),
           FormIssue("drive_incomplete_leg_extension", "drive",
                     "Fully extend legs for maximum power", "moderate", "legs"))

analyzeDrivePhase(pose, minConfidence) ==
    IF Undetected(pose, DriveLandmarks, minConfidence) THEN << >>
    ELSE DriveIssues(calculateAngle(getKeypoint(pose, "left_shoulder"), getKeypoint(pose, "left_elbow"),
                                    getKeypoint(pose, "left_wrist")),
                     calculateAngle(getKeypoint(pose, "right_shoulder"), getKeypoint(pose, "right_elbow"),
                                    getKeypoint(pose, "right_wrist")),
                     LegAngle(getKeypoint(pose, "left_hip"), getKeypoint(pose, "left_knee")),
                     LegAngle(getKeypoint(pose, "right_hip"), getKeypoint(pose, "right_knee")))

LockoutLandmarks ==
    {"left_shoulder", "right_shoulder", "left_elbow", "right_elbow",
     "left_wrist", "right_wrist"}

\* how far the line from shoulder to wrist is off the vertical
ArmVerticalAngle(wrist, shoulder) ==
    Abs(atan2(wrist.x - shoulder.x, shoulder.y - wrist.y))

\* the five checks of the lockout, on the angles measured
LockoutIssues(leftArmAngle, rightArmAngle, leftShoulder, rightShoulder, leftWrist, rightWrist) ==
    PushIf(leftArmAngle < Deg(160),
           FormIssue("lockout_left_arm_not_extended", "lockout",
                     "Fully extend left arm overhead", "high", "left_arm"))
    \o PushIf(rightArmAngle < Deg(160),
           FormIssue("lockout_right_arm_not_extended", "lockout",
                     "Fully extend right arm overhead", "high", "right_arm"))
    \o PushIf(10 * Abs(leftWrist.y - rightWrist.y) > Abs(leftShoulder.x - rightShoulder.x),
           FormIssue("lockout_uneven_wrists", "lockout",
                     "Keep wrists at the same height", "moderate", "wrists"))
    \o PushIf(ArmVerticalAngle(leftWrist, leftShoulder) > Deg(15),
           FormIssue("lockout_left_arm_not_vertical", "lockout",
                     "Position left arm more vertically", "moderate", "left_arm"))
    \o PushIf(ArmVerticalAngle(rightWrist, rightShoulder) > Deg(15),
           FormIssue("lockout_right_arm_not_vertical", "lockout",
                     "Position right arm more vertically", "moderate", "right_arm"))

analyzeLockoutPhase(pose, minConfidence) ==
    IF Undetected(pose, LockoutLandmarks, minConfidence) THEN << >>
    ELSE LockoutIssues(calculateAngle(getKeypoint(pose, "left_shoulder"), getKeypoint(pose, "left_elbow"),
                                      getKeypoint(pose, "left_wrist")),
                       calculateAngle(getKeypoint(pose, "right_shoulder"), getKeypoint(pose, "right_elbow"),
                                      getKeypoint(pose, "right_wrist")),
                       getKeypoint(pose, "left_shoulder"), getKeypoint(pose, "right_shoulder"),
                       getKeypoint(pose, "left_wrist"), getKeypoint(pose, "right_wrist"))

\* variant: a frame of no known phase is analysed as a lockout
PhaseIssuesDefaultLockout(pose, currentPhase, minConfidence) ==
    CASE currentPhase = "rack" -> analyzeRackPosition(pose, minConfidence)
      [] currentPhase = "dip" -> analyzeDipPhase(pose, minConfidence)
      [] currentPhase = "drive" -> analyzeDrivePhase(pose, minConfidence)
      [] OTHER -> analyzeLockoutPhase(pose, minConfidence)

\* switch (currentPhase)
PhaseIssues(pose, currentPhase, minConfidence) ==
    CASE currentPhase = "rack" -> analyzeRackPosition(pose, minConfidence)
      [] currentPhase = "dip" -> analyzeDipPhase(pose, minConfidence)
      [] currentPhase = "drive" -> analyzeDrivePhase(pose, minConfidence)
      [] currentPhase = "lockout" -> analyzeLockoutPhase(pose, minConfidence)
      [] OTHER -> << >>

\* variant: every issue costs ten points
DeductionFlat(severity) == 10

\* variant: a High issue costs twenty-five points
DeductionSteep(severity) ==
    CASE severity = "low" -> 5
      [] severity = "moderate" -> 10
      [] severity = "high" -> 25
      [] OTHER -> 0

\* switch (issue.severity)
Deduction(severity) ==
    CASE severity = "low" -> 5
      [] severity = "moderate" -> 10
      [] severity = "high" -> 20
      [] OTHER -> 0

\* issues.forEach(issue => overallScore -= ...), from the first issue on
RECURSIVE Deduct(_, _)
Deduct(issues, overallScore) ==
    IF issues = << >> THEN overallScore
    ELSE Deduct(Tail(issues), overallScore - Deduction(Head(issues).severity))

\* Math.max(0, Math.min(100, overallScore))
ClampScore(overallScore) ==
    IF overallScore > 100 THEN 100 ELSE IF overallScore < 0 THEN 0 ELSE overallScore

\* analyzeForm(pose, currentPhase, minConfidence) at time now
analyzeForm(pose, currentPhase, minConfidence, now) ==
    [ issues       |-> PhaseIssues(pose, currentPhase, minConfidence),
      overallScore |-> ClampScore(Deduct(PhaseIssues(pose, currentPhase, minConfidence), 100)),
      timestamp    |-> now ]

\* the pose with shoulders and arms moved so that the shoulder midpoint lies
\* dx to the side of and dy above the hip midpoint
Torso(pose, dx, dy) ==
    [pose EXCEPT !.keypoints =
        [n \in DOMAIN pose.keypoints |->
            IF n \in {"left_shoulder", "right_shoulder", "left_elbow", "right_elbow",
                      "left_wrist", "right_wrist"}
            THEN [pose.keypoints[n] EXCEPT !.x = @ + dx, !.y = @ + 200 - dy]
            ELSE pose.keypoints[n]]]

\* torsos from upright to lying: 0, 11.31, 26.57, 45, 78.69 and 90 degrees
\* off the vertical
TorsoLeans == {<<0, 200>>, <<40, 200>>, <<100, 200>>, <<200, 200>>, <<200, 40>>, <<200, 0>>}

\* a pose that fails checks in every phase
FaultyPose == MkPose("mid", "down", 50, 90)

\* both arms bent and off the vertical, the wrists at different heights
CrookedPose == MkPose("mid", "rackmid", 0, 90)

\* knees bent to a right angle in rack
DeepDipPose == MkPose("rack", "rack", 100, 90)

JerkPhases == {"unknown", "rack", "dip", "drive", "lockout"}

\* the poses handed to analyzeForm: the postures of the classifier, bent
\* knees under each torso, and the faulty pose with one landmark absent,
\* unscored or scored 0, 29 or 40
FormPoses ==
    {MkPose(p[1][1], p[1][2], p[2], 90) : p \in Postures}
        \cup {Torso(MkPose("rack", "rack", 20, 90), t[1], t[2]) : t \in TorsoLeans}
        \cup {NullPose, [score |-> 90], [keypoints |-> << >>], FaultyPose, CrookedPose,
              DeepDipPose}
        \cup {DropKeypoint(FaultyPose, n) : n \in Range(requiredKeypoints)}
        \cup {WithoutScore(FaultyPose, n) : n \in Range(requiredKeypoints)}
        \cup {WithScore(FaultyPose, n, s) : n \in Range(requiredKeypoints), s \in {0, 29, 40}}

\* one call of analyzeForm
AnalyzeOnce ==
    /\ frame.op = "init"
    /\ \E pose \in FormPoses, currentPhase \in JerkPhases, minConfidence \in {30, 50} :
          frame' = [op |-> "analyze",
                    pose |-> pose,
                    currentPhase |-> currentPhase,
                    minConfidence |-> minConfidence,
                    ret |-> analyzeForm(pose, currentPhase, minConfidence, clock)]
    /\ UNCHANGED <<jerkFSMState, clock, pre, calls, repTimes, seenKnee>>

NextForm == AnalyzeOnce

SpecForm == Init /\ [][NextForm]_vars

----------------------------------------------------------------------------
(* The detection loop: PoseDetectionComponent under KettlebellTrackerApp *)

\* frame holds the state of the two components: the user's settings, the
\* isActive flag, whether the component is mounted, the pose buffer
\* previousPoses, requestRef, the detectPoses closures that are still to run
\* (loops), whether the last effect run registered a cleanup, whether the
\* parent has a render outstanding (stale), whether an error was reported,
\* and of the last pose processed: the smoothPose call, the pose after
\* smoothing, the buffer size in force and the poses dropped from the buffer.
\* A closure is scheduled (its animation frame is requested) or pending (it
\* awaits estimatePoses); it carries the settings and the previousPoses of
\* the render that created it.  The animation frame a closure requests is
\* identified by the closure, the only function that frame can call.

\* renders of PoseDetectionComponent and poses delivered by the detector
MaxRenders == 3

MaxPoses == 2

\* value || fallback, for a number: 0 and undefined are falsy
OrNumber(value, fallback) == IF value = 0 THEN fallback ELSE value

\* value || fallback, for a flag: false and undefined are falsy
OrFlag(value, fallback) == IF value THEN value ELSE fallback

\* the props KettlebellTrackerApp hands to PoseDetectionComponent
PropsOf(settings) ==
    [ minConfidence          |-> settings.minConfidence,
      repThreshold           |-> settings.repThreshold,
      smoothingEnabled       |-> OrFlag(settings.smoothingEnabled, FALSE),
      smoothingFactor        |-> OrNumber(settings.smoothingFactor, 50),
      useConfidenceWeighting |-> OrFlag(settings.useConfidenceWeighting, TRUE),
      poseBufferSize         |-> OrNumber(settings.poseBufferSize, 5) ]

\* the configuration the component hands to processJerkMovement
ComponentConfig(props) ==
    [ minConfidence          |-> props.minConfidence,
      rackHeightThreshold    |-> 10,
      dipDepthThreshold      |-> 15,
      lockoutHeightThreshold |-> props.repThreshold,
      lockoutAngleThreshold  |-> 160,
      minRepDuration         |-> 500 ]

\* variant: the buffer keeps its oldest poses
SliceOldest(poses, n) ==
    IF n = 0 \/ n >= Len(poses) THEN poses
    ELSE IF n > 0 THEN SubSeq(poses, 1, n)
    ELSE SubSeq(poses, 1 - n, Len(poses))

\* poses.slice(-n)
SliceLast(poses, n) ==
    IF n = 0 \/ n >= Len(poses) THEN poses
    ELSE IF n > 0 THEN SubSeq(poses, Len(poses) - n + 1, Len(poses))
    ELSE SubSeq(poses, 1 - n, Len(poses))

\* the order of the landmarks in the detector's keypoints array
LandmarkOrder == << "nose" >> \o requiredKeypoints

\* a detected pose as smoothPose reads it: the keypoints in the detector's
\* order, whole coordinates as fractions
AsArray(pose) ==
    [keypoints |->
        [i \in DOMAIN LandmarkOrder |->
            ScoredKeypoint(LandmarkOrder[i],
                           pose.keypoints[LandmarkOrder[i]].x,
                           pose.keypoints[LandmarkOrder[i]].y,
                           pose.keypoints[LandmarkOrder[i]].score)]]

\* every coordinate of the smoothed pose is a whole number
Whole(smoothed) ==
    \A i \in DOMAIN smoothed.keypoints :
        smoothed.keypoints[i].x[2] = 1 /\ smoothed.keypoints[i].y[2] = 1

\* a smoothed pose of whole coordinates as the classifier reads it
AsPose(smoothed) ==
    [keypoints |->
        [n \in Range(LandmarkOrder) |->
            Keypoint(n, FindKeypoint(smoothed, n).x[1], FindKeypoint(smoothed, n).y[1],
                     FindKeypoint(smoothed, n).score)]]

\* lines 533-544: the pose after the smoothing step of the closure
SmoothingStep(pose, loop) ==
    IF PropsOf(loop.settings).smoothingEnabled /\ Len(loop.previousPoses) > 0
    THEN smoothPose(AsArray(pose),
                    [i \in DOMAIN loop.previousPoses |-> AsArray(loop.previousPoses[i])],
                    PropsOf(loop.settings).smoothingFactor, PropsOf(loop.settings).useConfidenceWeighting,
                    PropsOf(loop.settings).minConfidence)
    ELSE AsArray(pose)

\* the arguments of the closure's call of smoothPose, if it makes one
SmoothingCall(loop) ==
    IF PropsOf(loop.settings).smoothingEnabled /\ Len(loop.previousPoses) > 0
    THEN [called                 |-> TRUE,
          settings               |-> loop.settings,
          smoothingFactor        |-> PropsOf(loop.settings).smoothingFactor,
          useConfidenceWeighting |-> PropsOf(loop.settings).useConfidenceWeighting,
          minConfidence          |-> PropsOf(loop.settings).minConfidence]
    ELSE [called |-> FALSE]

\* what estimatePoses finds: the athlete in the rack and locked out
LoopPoses ==
    {MkPose("rack", "rack", 0, 90), LockoutPose}

\* the settings the user can store
LoopSettings ==
    { [minConfidence |-> 30, repThreshold |-> 50, smoothingEnabled |-> TRUE,
       smoothingFactor |-> 50, useConfidenceWeighting |-> TRUE, poseBufferSize |-> 2],
      [minConfidence |-> 30, repThreshold |-> 50, smoothingEnabled |-> TRUE,
       smoothingFactor |-> 0, useConfidenceWeighting |-> FALSE, poseBufferSize |-> 1],
      [minConfidence |-> 30, repThreshold |-> 50, smoothingEnabled |-> FALSE,
       smoothingFactor |-> 100, useConfidenceWeighting |-> FALSE, poseBufferSize |-> 0] }

\* the app has rendered with the stored settings; tracking is off, the camera
\* and the detector are ready, no pose has been seen
InitLoop ==
    /\ jerkFSMState = initialJerkFSMState
    /\ clock = 1000000
    /\ \E settings \in LoopSettings :
          frame = [ settings      |-> settings,
                    isActive      |-> FALSE,
                    mounted       |-> TRUE,
                    previousPoses |-> << >>,
                    requestRef    |-> 0,
                    loops         |-> {},
                    cleanup       |-> FALSE,
                    stale         |-> FALSE,
                    renders       |-> 0,
                    smoothing     |-> [called |-> FALSE],
                    pose          |-> NullPose,
                    capacity      |-> 0,
                    error         |-> FALSE,
                    evicted       |-> << >>,
                    formAnalysis  |-> [isNull |-> TRUE] ]
    /\ pre = initialJerkFSMState
    /\ calls = 0
    /\ repTimes = << >>
    /\ seenKnee = 0

\* the cleanup of the detection effect, if the last run registered one:
\* cancelAnimationFrame(requestRef.current) takes the closure off the
\* schedule whose frame that is
AfterCleanup(f) ==
    IF f.cleanup /\ f.requestRef # 0
    THEN [f EXCEPT !.loops = {l \in f.loops : ~(l.at = "scheduled" /\ l.gen = f.requestRef)},
                   !.requestRef = 0]
    ELSE f

\* the detection effect runs with the props of this render: when tracking is
\* on it requests the first frame for a new closure
AfterEffect(f, gen) ==
    IF f.isActive
    THEN [f EXCEPT !.loops = f.loops \cup
                       {[gen |-> gen, at |-> "scheduled", settings |-> f.settings,
                         previousPoses |-> f.previousPoses]},
                   !.requestRef = gen,
                   !.cleanup = TRUE]
    ELSE [f EXCEPT !.cleanup = FALSE]

\* a render of both components followed by the effect's cleanup and rerun
Rendered(f) ==
    AfterEffect(AfterCleanup([f EXCEPT !.stale = FALSE, !.renders = f.renders + 1]),
                f.renders + 1)

\* handleToggleActive
ToggleActive ==
    /\ frame.mounted
    /\ frame.renders < MaxRenders
    /\ frame' = Rendered([frame EXCEPT !.isActive = ~frame.isActive])
    /\ UNCHANGED <<jerkFSMState, clock, pre, calls, repTimes, seenKnee>>

\* handleSettingsChange(newSettings)
SettingsChange ==
    /\ frame.mounted
    /\ frame.renders < MaxRenders
    /\ \E newSettings \in LoopSettings \ {frame.settings} :
          frame' = Rendered([frame EXCEPT !.settings = newSettings])
    /\ UNCHANGED <<jerkFSMState, clock, pre, calls, repTimes, seenKnee>>

\* the parent renders after handlePoseDetected has set its state: the
\* callbacks it passes are new functions, so the effect is torn down and rerun
Rerender ==
    /\ frame.mounted
    /\ frame.stale
    /\ frame.renders < MaxRenders
    /\ frame' = Rendered(frame)
    /\ UNCHANGED <<jerkFSMState, clock, pre, calls, repTimes, seenKnee>>

\* the video element goes away: the component unmounts, both effects clean
\* up, the detector is disposed
Unmount ==
    /\ frame.mounted
    /\ frame' = [AfterCleanup(frame) EXCEPT !.mounted = FALSE, !.cleanup = FALSE]
    /\ UNCHANGED <<jerkFSMState, clock, pre, calls, repTimes, seenKnee>>

\* a requested animation frame arrives: detectPoses runs up to its await,
\* or returns at once when the detector is gone
AnimationFrame ==
    /\ \E loop \in frame.loops :
          /\ loop.at = "scheduled"
          /\ frame' = [frame EXCEPT
                          !.loops = IF frame.mounted
                                    THEN (frame.loops \ {loop})
                                            \cup {[loop EXCEPT !.at = "pending"]}
                                    ELSE frame.loops \ {loop}]
    /\ UNCHANGED <<jerkFSMState, clock, pre, calls, repTimes, seenKnee>>

\* the closure requests its next frame: requestRef.current = requestAnimationFrame(detectPoses)
Rescheduled(f, loop) ==
    [f EXCEPT !.loops = (f.loops \ {loop}) \cup {[loop EXCEPT !.at = "scheduled"]},
              !.requestRef = loop.gen]

\* estimatePoses resolves without a pose
EstimateNothing ==
    /\ \E loop \in frame.loops :
          /\ loop.at = "pending"
          /\ frame' = Rescheduled(frame, loop)
    /\ UNCHANGED <<jerkFSMState, clock, pre, calls, repTimes, seenKnee>>

\* estimatePoses rejects, as it may once the detector is disposed: the
\* closure reports the error and requests no further frame
EstimateFails ==
    /\ ~frame.mounted
    /\ \E loop \in frame.loops :
          /\ loop.at = "pending"
          /\ frame' = [frame EXCEPT !.loops = frame.loops \ {loop}, !.error = TRUE]
    /\ UNCHANGED <<jerkFSMState, clock, pre, calls, repTimes, seenKnee>>

\* estimatePoses resolves with a pose: the rest of detectPoses runs with the
\* props and the buffer its closure has captured.  The detector delivers the
\* poses whose smoothed landmarks are again poses of LoopPoses.
EstimateResolves ==
    /\ calls < MaxPoses
    /\ \E loop \in frame.loops, detected \in LoopPoses, now \in {clock + 600} :
          /\ loop.at = "pending"
          /\ \E smoothed \in {SmoothingStep(detected, loop)} :
                /\ Whole(smoothed)
                /\ \E pose \in {AsPose(smoothed)} :
                      /\ pose \in LoopPoses
                      /\ \E r \in {processJerkMovement(jerkFSMState, pose,
                                                       ComponentConfig(PropsOf(loop.settings)), now)} :
                            /\ jerkFSMState' = r.st
                            /\ frame' =
                                 [Rescheduled(frame, loop) EXCEPT
                                    !.previousPoses =
                                        IF frame.mounted
                                        THEN SliceLast(Append(frame.previousPoses, pose),
                                                       PropsOf(loop.settings).poseBufferSize)
                                        ELSE frame.previousPoses,
                                    !.evicted =
                                        IF frame.mounted
                                        THEN SubSeq(Append(frame.previousPoses, pose), 1,
                                                    Len(frame.previousPoses) + 1
                                                      - Len(SliceLast(Append(frame.previousPoses, pose),
                                                                      PropsOf(loop.settings).poseBufferSize)))
                                        ELSE << >>,
                                    !.stale = TRUE,
                                    !.smoothing = SmoothingCall(loop),
                                    !.pose = pose,
                                    !.capacity = PropsOf(loop.settings).poseBufferSize,
                                    !.formAnalysis =
                                        IF frame.mounted
                                        THEN analyzeForm(pose, r.st.currentPhase,
                                                         PropsOf(loop.settings).minConfidence, now)
                                        ELSE frame.formAnalysis]
                            /\ repTimes' = IF r.st.repCount > jerkFSMState.repCount
                                           THEN Append(repTimes,
                                                       [time |-> now, window |-> 500])
                                           ELSE repTimes
                /\ seenKnee' = KneeAngleOf(detected)
          /\ clock' = now
    /\ pre' = jerkFSMState
    /\ calls' = calls + 1

NextLoop ==
    \/ ToggleActive
    \/ SettingsChange
    \/ Rerender
    \/ Unmount
    \/ AnimationFrame
    \/ EstimateNothing
    \/ EstimateFails
    \/ EstimateResolves

SpecLoop == InitLoop /\ [][NextLoop]_vars

----------------------------------------------------------------------------
(* The legacy counter of repCounter.ts.  Its state jerkState, the state     *)
(* before the call and the length of the run of overhead frames are kept    *)
(* in frame.                                                                *)

MaxLegacy == 4

initialJerkState ==
    [ isUp         |-> FALSE,
      confidence   |-> 0,
      lastPosition |-> 0,
      repCount     |-> 0,
      lastRepTime  |-> 0 ]

ArmLandmarks ==
    << "left_shoulder", "right_shoulder", "left_elbow", "right_elbow",
       "left_wrist", "right_wrist" >>

\* config.minConfidence || 0.3
confidenceThreshold(config) == OrNumber(config.minConfidence, 30)

\* the pose passes the three guards of analyzeJerkMovement
ArmsConfident(pose, config) ==
    /\ ~(pose = NullPose \/ "keypoints" \notin DOMAIN pose \/ DOMAIN pose.keypoints = {})
    /\ \A name \in Range(ArmLandmarks) : getKeypoint(pose, name) # NoKeypoint
    /\ \A name \in Range(ArmLandmarks) :
          ~(ScoreOf(getKeypoint(pose, name)) < confidenceThreshold(config))

\* the arm with the higher wrist, the right one when level
isLeftArm(pose) == getKeypoint(pose, "left_wrist").y < getKeypoint(pose, "right_wrist").y

ArmSide(pose) == IF isLeftArm(pose) THEN "left" ELSE "right"

armAngle(pose) ==
    calculateAngle(getKeypoint(pose, ArmSide(pose) \o "_shoulder"),
                   getKeypoint(pose, ArmSide(pose) \o "_elbow"),
                   getKeypoint(pose, ArmSide(pose) \o "_wrist"))

wristHeight(pose) ==
    getKeypoint(pose, ArmSide(pose) \o "_shoulder").y
        - getKeypoint(pose, ArmSide(pose) \o "_wrist").y

isOverhead(pose, config) ==
    wristHeight(pose) > config.repThreshold /\ armAngle(pose) > Deg(150)

\* variant: every overhead frame past the debounce window counts
TrackOverheadEveryFrame(s, overhead, now) ==
    IF overhead
    THEN IF now - s.lastRepTime > 500
         THEN [s EXCEPT !.isUp = TRUE, !.repCount = @ + 1, !.lastRepTime = now]
         ELSE [s EXCEPT !.isUp = TRUE]
    ELSE IF s.isUp THEN [s EXCEPT !.isUp = FALSE] ELSE s

\* if (isOverhead && !jerkState.isUp) ... else if (!isOverhead && jerkState.isUp)
TrackOverhead(s, overhead, now) ==
    IF overhead /\ ~s.isUp
    THEN IF now - s.lastRepTime > 500
         THEN [s EXCEPT !.isUp = TRUE, !.repCount = @ + 1, !.lastRepTime = now]
         ELSE [s EXCEPT !.isUp = TRUE]
    ELSE IF ~overhead /\ s.isUp THEN [s EXCEPT !.isUp = FALSE] ELSE s

\* analyzeJerkMovement(pose, config) on jerkState s at time now
analyzeJerkMovement(s, pose, config, now) ==
    IF ~ArmsConfident(pose, config)
    THEN [st |-> s, ret |-> s.repCount]
    ELSE LET s1 == [TrackOverhead(s, isOverhead(pose, config), now)
                       EXCEPT !.lastPosition = wristHeight(pose)]
         IN  [st |-> s1, ret |-> s1.repCount]

RepCounterConfig(minConfidence, repThreshold) ==
    [minConfidence |-> minConfidence, repThreshold |-> repThreshold]

\* the poses handed to the legacy counter: overhead on either arm or both,
\* not overhead (rack, bent arm, low wrist), and arm landmarks missing,
\* unscored or scored low; then poses scored 20 and a low lockout under a
\* zero and under a strict minConfidence
LegacyInputs ==
    {Call(p, RepCounterConfig(30, 50), dt) :
        p \in {LockoutPose, MkPose("lock", "down", 0, 90), MkPose("rack", "rack", 0, 90),
               MkPose("mid", "mid", 0, 90), MkPose("locklow", "locklow", 0, 90)},
        dt \in {200, 600}}
      \cup {Call(p, RepCounterConfig(30, 50), 200) :
                p \in {NullPose, [keypoints |-> << >>],
                       DropKeypoint(LockoutPose, "right_elbow"),
                       WithScore(LockoutPose, "left_wrist", 29),
                       WithoutScore(LockoutPose, "right_shoulder"),
                       WithScore(LockoutPose, "left_knee", 0)}}
      \cup {Call(p, c, 200) :
                p \in {MkPose("lock", "lock", 0, 20), MkPose("locklow", "locklow", 0, 90)},
                c \in {RepCounterConfig(0, 30), RepCounterConfig(50, 30)}}

InitLegacy ==
    /\ jerkFSMState = initialJerkFSMState
    /\ clock = 1000000
    /\ frame = [op |-> "init", jerkState |-> initialJerkState,
                before |-> initialJerkState, run |-> 0]
    /\ pre = initialJerkFSMState
    /\ calls = 0
    /\ repTimes = << >>
    /\ seenKnee = 0

\* one call of analyzeJerkMovement; run is the number of consecutive
\* overhead frames, among the frames that passed the guards, ending here
LegacyFrame ==
    /\ calls < MaxLegacy
    /\ \E c \in LegacyInputs :
          \E r \in {analyzeJerkMovement(frame.jerkState, c.pose, c.config, clock + c.dt)} :
              /\ clock' = clock + c.dt
              /\ frame' = [op |-> "frame", jerkState |-> r.st, before |-> frame.jerkState,
                           run |-> IF ~ArmsConfident(c.pose, c.config) THEN frame.run
                                   ELSE IF isOverhead(c.pose, c.config) THEN frame.run + 1
                                   ELSE 0,
                           pose |-> c.pose, config |-> c.config, ret |-> r.ret]
    /\ calls' = calls + 1
    /\ UNCHANGED <<jerkFSMState, pre, repTimes, seenKnee>>

\* resetCounter(): the history starts anew
ResetCounter ==
    /\ frame.op = "frame"
    /\ frame' = [op |-> "reset", jerkState |-> initialJerkState,
                 before |-> frame.jerkState, run |-> 0]
    /\ UNCHANGED <<jerkFSMState, clock, pre, calls, repTimes, seenKnee>>

NextLegacy == LegacyFrame \/ ResetCounter

SpecLegacy == InitLegacy /\ [][NextLegacy]_vars

----------------------------------------------------------------------------
(* Vocabulary of the properties: the last call was processJerkMovement,    *)
(* made in state pre at time clock, and left jerkFSMState.                 *)

Processed == frame.op = "process"

\* every required landmark is present and scored at least minConfidence
Trusted(pose, minConfidence) ==
    /\ pose # NullPose
    /\ "keypoints" \in DOMAIN pose
    /\ \A n \in Range(requiredKeypoints) :
          /\ n \in DOMAIN pose.keypoints
          /\ "score" \in DOMAIN pose.keypoints[n]
          /\ pose.keypoints[n].score >= minConfidence

TrustedFrame == Processed /\ Trusted(frame.pose, frame.config.minConfidence)

\* the phase the frame was classified as
NewPhase == DeterminePhase(pre, frame.pose, frame.config).phase

Transition == TrustedFrame /\ NewPhase # pre.currentPhase

----------------------------------------------------------------------------
(* Properties *)

\* C1: without a reset in between, repCount never decreases and a single
\* processJerkMovement call changes it by 0 or +1: the count equals the
\* number of increments since the last reset, and the call just made moved
\* it by 0 or 1 and returned it.
C1_RepCountMonotone ==
    /\ jerkFSMState.repCount = Len(repTimes)
    /\ Processed =>
          /\ jerkFSMState.repCount \in {pre.repCount, pre.repCount + 1}
          /\ frame.ret = jerkFSMState.repCount

C1_Witness ==
    /\ Processed
    /\ pre.repCount = 1
    /\ jerkFSMState.repCount = 2

\* C2: on a trusted frame repCount rises by exactly 1 iff the frame is
\* classified lockout, the phase before the frame was not lockout and
\* now - lastRepTime > minRepDuration; then lastRepTime becomes now, and
\* otherwise repCount and lastRepTime stay as they were.  Neither isValidRep
\* nor the phase left enters the condition.
C2_CountExactlyOnDebouncedLockoutEntry ==
    TrustedFrame =>
        LET counts == /\ NewPhase = "lockout"
                      /\ pre.currentPhase # "lockout"
                      /\ clock - pre.lastRepTime > frame.config.minRepDuration
        IN  /\ (jerkFSMState.repCount = pre.repCount + 1) <=> counts
            /\ counts => jerkFSMState.lastRepTime = clock
            /\ ~counts => /\ jerkFSMState.repCount = pre.repCount
                          /\ jerkFSMState.lastRepTime = pre.lastRepTime

\* a repetition counted on entering lockout straight from rack, while the
\* validity flag was false
C2_Witness ==
    /\ TrustedFrame
    /\ NewPhase = "lockout"
    /\ pre.currentPhase = "rack"
    /\ ~pre.isValidRep
    /\ jerkFSMState.repCount = pre.repCount + 1
    /\ jerkFSMState.lastRepTime = clock

\* C3: the times of any two repCount increments differ by more than the
\* minRepDuration of the call that made the later one.
C3_RepsAreDebounced ==
    \A i, j \in DOMAIN repTimes :
        i < j => repTimes[j].time - repTimes[i].time > repTimes[j].window

\* two repetitions counted, the second by the frame just processed
C3_Witness ==
    /\ Processed
    /\ Len(repTimes) = 2
    /\ repTimes[2].time = clock
    /\ jerkFSMState.lastRepTime = clock

\* C4: a null or empty pose, or a required landmark that is absent or
\* scored below minConfidence (no score counts as 0), makes
\* processJerkMovement return the current repCount and leave every field
\* of the state as it was.
C4_UntrustedFrameFreezes ==
    (Processed /\ ~Trusted(frame.pose, frame.config.minConfidence)) =>
        /\ jerkFSMState = pre
        /\ frame.ret = pre.repCount

\* an untrusted frame arrived in lockout after a counted repetition, and
\* the phase is still lockout
C4_Witness ==
    /\ Processed
    /\ ~Trusted(frame.pose, frame.config.minConfidence)
    /\ pre.currentPhase = "lockout"
    /\ pre.repCount = 1
    /\ jerkFSMState.currentPhase = "lockout"
    /\ frame.ret = 1

\* the detectors' verdicts on the frame, each taken on the cached
\* measurements as they were when the call started
LockoutHolds == detectLockoutPhase(pre, frame.pose, frame.config).res

DriveHolds == detectDrivePhase(pre, frame.pose, frame.config).res

DipHolds == detectDipPhase(pre, frame.pose, frame.config).res

RackHolds == detectRackPosition(pre, frame.pose, frame.config).res

FirstMatch ==
    IF LockoutHolds THEN "lockout"
    ELSE IF DriveHolds THEN "drive"
    ELSE IF DipHolds THEN "dip"
    ELSE IF RackHolds THEN "rack"
    ELSE "unknown"

\* C5: on every trusted frame the phase assigned is the first of lockout,
\* drive, dip, rack whose predicate holds for the frame and the cached
\* previous measurements, and unknown if none holds.
C5_FirstMatchWins ==
    TrustedFrame => jerkFSMState.currentPhase = FirstMatch

\* C6: a trusted frame that satisfies neither the lockout nor the drive
\* predicate, whose knee angle is below 170 degrees and lower than the cached
\* knee angle of the previous frame by more than dipDepthThreshold, is
\* classified dip.
C6_KneeDropIsDip ==
    ( /\ TrustedFrame
      /\ ~LockoutHolds
      /\ ~DriveHolds
      /\ KneeAngleOf(frame.pose) < Deg(170)
      /\ pre.kneeAngle - KneeAngleOf(frame.pose) > Deg(frame.config.dipDepthThreshold) )
    => jerkFSMState.currentPhase = "dip"

\* C7: when a call starts, the cached knee angle is the left knee angle of
\* the most recent earlier trusted frame (0 if there was none), whatever
\* phase that frame was given.
C7_CachedKneeIsLastTrustedKnee == jerkFSMState.kneeAngle = seenKnee

\* C8: on a trusted frame whose phase differs from the current phase,
\* previousPhase becomes the phase before the frame, currentPhase the new
\* phase and lastTransitionTime now.
C8_TransitionIsRecorded ==
    Transition =>
        /\ jerkFSMState.previousPhase = pre.currentPhase
        /\ jerkFSMState.currentPhase = NewPhase
        /\ jerkFSMState.lastTransitionTime = clock

\* a transition from rack into drive, later than the one before it
C8_Witness ==
    /\ Transition
    /\ pre.currentPhase = "rack"
    /\ NewPhase = "drive"
    /\ pre.lastTransitionTime < clock

\* C9 as stated: on a trusted frame whose phase equals the current phase,
\* previousPhase, currentPhase, lastTransitionTime, repCount, lastRepTime
\* and isValidRep are all left unchanged.
C9_SamePhaseChangesNothing ==
    (TrustedFrame /\ NewPhase = pre.currentPhase) =>
        /\ jerkFSMState.previousPhase = pre.previousPhase
        /\ jerkFSMState.currentPhase = pre.currentPhase
        /\ jerkFSMState.lastTransitionTime = pre.lastTransitionTime
        /\ jerkFSMState.repCount = pre.repCount
        /\ jerkFSMState.lastRepTime = pre.lastRepTime
        /\ jerkFSMState.isValidRep = pre.isValidRep

\* C9 amended: on a trusted frame whose phase equals the current phase,
\* currentPhase, lastTransitionTime, repCount, lastRepTime and isValidRep
\* are left unchanged, and previousPhase is overwritten with the current
\* phase.
C9_SamePhaseKeepsAllButPreviousPhase ==
    (TrustedFrame /\ NewPhase = pre.currentPhase) =>
        /\ jerkFSMState.previousPhase = pre.currentPhase
        /\ jerkFSMState.currentPhase = pre.currentPhase
        /\ jerkFSMState.lastTransitionTime = pre.lastTransitionTime
        /\ jerkFSMState.repCount = pre.repCount
        /\ jerkFSMState.lastRepTime = pre.lastRepTime
        /\ jerkFSMState.isValidRep = pre.isValidRep

\* a second trusted lockout frame after a counted repetition, arriving
\* later than the debounce window: count, flag and transition time stay
C9_Witness ==
    /\ TrustedFrame
    /\ NewPhase = "lockout"
    /\ pre.currentPhase = "lockout"
    /\ pre.previousPhase # "lockout"
    /\ pre.isValidRep
    /\ clock - pre.lastRepTime > frame.config.minRepDuration
    /\ jerkFSMState.repCount = 1

CanonicalOrder(from, to) ==
    \/ from = "rack" /\ to = "dip"
    \/ from = "dip" /\ to = "drive"
    \/ from = "drive" /\ to = "lockout"

\* C10: after every phase transition isValidRep is true iff the transition
\* is rack to dip, dip to drive or drive to lockout, or the frame incremented
\* repCount.
C10_ValidFlagFollowsTransition ==
    Transition =>
        ( jerkFSMState.isValidRep <=>
              \/ CanonicalOrder(pre.currentPhase, NewPhase)
              \/ jerkFSMState.repCount = pre.repCount + 1 )

\* C13: resetJerkFSM restores every field of the state to its initial value
\* from any state, and it is the only operation that lowers repCount: a
\* processJerkMovement call lowers neither the count nor the two
\* timestamps, and never leaves the initial state behind once a repetition
\* has been counted.
C13_OnlyResetRestoresInitialState ==
    /\ frame.op = "reset" => jerkFSMState = initialJerkFSMState
    /\ jerkFSMState.repCount < pre.repCount => frame.op = "reset"
    /\ Processed =>
          /\ jerkFSMState.lastRepTime >= pre.lastRepTime
          /\ jerkFSMState.lastTransitionTime >= pre.lastTransitionTime
          /\ pre.repCount > 0 => jerkFSMState # initialJerkFSMState

\* a reset in lockout after a counted repetition, with cached measurements
C13_Witness ==
    /\ frame.op = "reset"
    /\ pre.currentPhase = "lockout"
    /\ pre.repCount = 1
    /\ pre.isValidRep
    /\ pre.leftArmAngle > 0
    /\ jerkFSMState = initialJerkFSMState

\* C14: no phase is terminal: in every reachable state and under every
\* configuration there is a trusted frame after which the current phase is
\* a different one.
C14_NoPhaseIsTerminal ==
    \A config \in Configs :
        \E pose \in PhasePoses :
            /\ Trusted(pose, config.minConfidence)
            /\ processJerkMovement(jerkFSMState, pose, config, clock).st.currentPhase
                   # jerkFSMState.currentPhase

\* dip was reached and the next frame left it for drive
C14_Witness ==
    /\ TrustedFrame
    /\ pre.currentPhase = "dip"
    /\ jerkFSMState.currentPhase = "drive"

----------------------------------------------------------------------------
(* The canonical cycle (SpecCycle) *)

\* the lockout frame of the first cycle has just been processed
FirstLockoutDone == calls = 4

\* the lockout frame of the second cycle has just been processed
SecondLockoutDone == calls = 8

\* the first lockout frame arrived later than minRepDuration on the clock,
\* as it does whenever Date.now() is wall-clock time
ClockPastFirstWindow ==
    frame.origin + CycleTimes[4] > defaultJerkFSMConfig.minRepDuration

----------------------------------------------------------------------------
(* Scaling (SpecScale) *)

\* C15: multiplying every landmark coordinate of every frame by the same
\* factor k > 0, under the same configuration, gives the same sequence of
\* phases and the same repCount: after every frame the two runs agree.
C15_ScalingKeepsPhasesAndCount ==
    /\ frame.twin.currentPhase = jerkFSMState.currentPhase
    /\ frame.twin.repCount = jerkFSMState.repCount

----------------------------------------------------------------------------
(* Smoothing (SpecSmooth) *)

\* the last call was smoothPose
Smoothed == frame.op = "smooth"

\* the result of the last call's inputs with another history and factor
Resmoothed(previousPoses, smoothingFactor) ==
    smoothPose(frame.currentPose, previousPoses, smoothingFactor,
               frame.useConfidenceWeighting, frame.minConfidence)

\* the current pose has landmarks, and the call moved the first of them
FirstLandmarkMoved ==
    /\ Smoothed
    /\ "keypoints" \in DOMAIN frame.currentPose
    /\ frame.currentPose.keypoints # << >>
    /\ frame.ret.keypoints[1].x # frame.currentPose.keypoints[1].x

\* C16: with an empty history, or with smoothingFactor <= 0, smoothPose
\* returns the current pose: same landmarks, positions and scores, in
\* uniform and in confidence-weighted mode.
C16_NoHistoryOrNoFactorIsIdentity ==
    (Smoothed /\ (frame.previousPoses = << >> \/ frame.smoothingFactor <= 0))
        => frame.ret = frame.currentPose

\* a negative factor with a full history of usable samples, uniform mode
C16_Witness ==
    /\ Smoothed
    /\ frame.smoothingFactor < 0
    /\ Len(frame.previousPoses) = MaxHistory
    /\ ~frame.useConfidenceWeighting
    /\ "keypoints" \in DOMAIN frame.currentPose
    /\ frame.currentPose.keypoints # << >>
    /\ \A i \in DOMAIN frame.previousPoses :
          HasKeypoint(frame.previousPoses[i], frame.currentPose.keypoints[1].name)
    /\ frame.ret = frame.currentPose

Orderings(n) ==
    {f \in [1..n -> 1..n] : \A i, j \in 1..n : f[i] = f[j] => i = j}

\* C17: the smoothed pose is the same for every permutation of the history
\* buffer, in both modes.
C17_HistoryOrderIsIrrelevant ==
    Smoothed =>
        \A f \in Orderings(Len(frame.previousPoses)) :
            Resmoothed([i \in DOMAIN frame.previousPoses |-> frame.previousPoses[f[i]]],
                       frame.smoothingFactor) = frame.ret

\* three different poses in the buffer, confidence-weighted, and the first
\* landmark moved
C17_Witness ==
    /\ FirstLandmarkMoved
    /\ frame.useConfidenceWeighting
    /\ Len(frame.previousPoses) = 3
    /\ Cardinality({frame.previousPoses[i] : i \in 1..3}) = 3

\* C18: the smoothed pose has exactly the landmarks of the current pose, in
\* the same order with the same names, and each carries the current
\* landmark's score (or none, if the current landmark has none).
C18_OnlyPositionsChange ==
    (Smoothed /\ "keypoints" \in DOMAIN frame.currentPose) =>
        /\ Len(frame.ret.keypoints) = Len(frame.currentPose.keypoints)
        /\ \A i \in DOMAIN frame.currentPose.keypoints :
              /\ frame.ret.keypoints[i].name = frame.currentPose.keypoints[i].name
              /\ ("score" \in DOMAIN frame.ret.keypoints[i])
                    <=> ("score" \in DOMAIN frame.currentPose.keypoints[i])
              /\ "score" \in DOMAIN frame.currentPose.keypoints[i] =>
                    frame.ret.keypoints[i].score = frame.currentPose.keypoints[i].score

\* a scored landmark was moved and kept its score
C18_Witness ==
    /\ FirstLandmarkMoved
    /\ frame.currentPose.keypoints[1].score = 90
    /\ frame.ret.keypoints[1].score = 90
    /\ frame.ret.keypoints[1].y # frame.currentPose.keypoints[1].y

\* a historical sample that counts: it has a score, at least minConfidence
Qualifies(kp, minConfidence) ==
    "score" \in DOMAIN kp /\ kp.score >= minConfidence

\* the history without the samples that do not count
Purged(previousPoses, minConfidence) ==
    [i \in DOMAIN previousPoses |->
        [previousPoses[i] EXCEPT !.keypoints =
            SelectSeq(@, LAMBDA kp : Qualifies(kp, minConfidence))]]

\* C19: in confidence-weighted mode the historical samples scored below
\* minConfidence or without a score have no influence: the output is the
\* output for the history without them, and a landmark none of whose
\* samples counts comes out as it went in.
C19_UnconfidentSamplesHaveNoInfluence ==
    (Smoothed /\ frame.useConfidenceWeighting) =>
        /\ frame.ret = Resmoothed(Purged(frame.previousPoses, frame.minConfidence),
                                  frame.smoothingFactor)
        /\ "keypoints" \in DOMAIN frame.currentPose =>
              \A i \in DOMAIN frame.currentPose.keypoints :
                  (\A j \in DOMAIN frame.previousPoses :
                      \A k \in DOMAIN frame.previousPoses[j].keypoints :
                          frame.previousPoses[j].keypoints[k].name
                                = frame.currentPose.keypoints[i].name
                            => ~Qualifies(frame.previousPoses[j].keypoints[k],
                                          frame.minConfidence))
                  => frame.ret.keypoints[i] = frame.currentPose.keypoints[i]

\* the buffer holds a sample that counts and one that does not, and the
\* first landmark moved
C19_Witness ==
    /\ FirstLandmarkMoved
    /\ frame.useConfidenceWeighting
    /\ frame.minConfidence = 50
    /\ \E j, k \in DOMAIN frame.previousPoses :
          /\ HasKeypoint(frame.previousPoses[j], "left_wrist")
          /\ HasKeypoint(frame.previousPoses[k], "left_wrist")
          /\ Qualifies(FindKeypoint(frame.previousPoses[j], "left_wrist"), 50)
          /\ ~Qualifies(FindKeypoint(frame.previousPoses[k], "left_wrist"), 50)
          /\ "score" \in DOMAIN FindKeypoint(frame.previousPoses[k], "left_wrist")

\* C20: with a non-empty history a smoothingFactor above 1 gives the output
\* of smoothingFactor = 1 and one below 0 the output of smoothingFactor = 0,
\* in both modes.
C20_FactorIsClamped ==
    (Smoothed /\ frame.previousPoses # << >>) =>
        /\ frame.smoothingFactor > 100 => frame.ret = Resmoothed(frame.previousPoses, 100)
        /\ frame.smoothingFactor < 0 => frame.ret = Resmoothed(frame.previousPoses, 0)

\* a factor of 1.5 moved the first landmark
C20_Witness ==
    /\ FirstLandmarkMoved
    /\ frame.smoothingFactor = 150
    /\ Len(frame.previousPoses) = 2

\* the previous poses that show a landmark of that name
Showing(previousPoses, name) ==
    {j \in DOMAIN previousPoses : HasKeypoint(previousPoses[j], name)}

\* the sum of that landmark's coordinate over the previous poses in entries
RECURSIVE SumOver(_, _, _, _)
SumOver(entries, previousPoses, name, axis) ==
    IF entries = {} THEN Num(0)
    ELSE LET j == CHOOSE j \in entries : TRUE
         IN  RatAdd(FindKeypoint(previousPoses[j], name)[axis],
                    SumOver(entries \ {j}, previousPoses, name, axis))

\* current * (1 - a) + mean * a, the mean taken over the previous poses that
\* show the landmark
UniformBlend(current, previousPoses, name, axis, smoothingFactor) ==
    RatAdd(RatMul(current, RatNorm(100 - smoothingFactor, 100)),
           RatMul(RatDiv(SumOver(Showing(previousPoses, name), previousPoses, name, axis),
                         Num(Cardinality(Showing(previousPoses, name)))),
                  RatNorm(smoothingFactor, 100)))

\* C27: in uniform mode with a non-empty history and a factor a in (0, 1],
\* each output coordinate is current * (1 - a) + mean * a, the mean being the
\* arithmetic mean over the history entries that contain a landmark of the
\* same name: entries without it are skipped, not counted as zero, and the
\* scores of the history play no part.
C27_UniformModeBlendsWithPlainMean ==
    (Smoothed /\ ~frame.useConfidenceWeighting /\ frame.previousPoses # << >>
        /\ frame.smoothingFactor > 0 /\ frame.smoothingFactor <= 100
        /\ "keypoints" \in DOMAIN frame.currentPose) =>
        \A i \in DOMAIN frame.currentPose.keypoints :
            Showing(frame.previousPoses, frame.currentPose.keypoints[i].name) # {} =>
                /\ frame.ret.keypoints[i].x =
                      UniformBlend(frame.currentPose.keypoints[i].x, frame.previousPoses,
                                   frame.currentPose.keypoints[i].name, "x",
                                   frame.smoothingFactor)
                /\ frame.ret.keypoints[i].y =
                      UniformBlend(frame.currentPose.keypoints[i].y, frame.previousPoses,
                                   frame.currentPose.keypoints[i].name, "y",
                                   frame.smoothingFactor)

\* half-and-half smoothing of a nose at x = 50 against two previous poses,
\* one with the nose at x = 80 and a low-scored one without a nose: the
\* result is 65, not the 45 that a zero for the missing sample would give
C27_Witness ==
    /\ Smoothed
    /\ ~frame.useConfidenceWeighting
    /\ frame.smoothingFactor = 50
    /\ frame.currentPose = [keypoints |-> << ScoredKeypoint("left_wrist", 100, 200, 90),
                                             ScoredKeypoint("nose", 50, 60, 40) >>]
    /\ Len(frame.previousPoses) = 2
    /\ Showing(frame.previousPoses, "nose") = {1}
    /\ frame.previousPoses[2] = [keypoints |-> << ScoredKeypoint("left_wrist", 160, 260, 40) >>]
    /\ FindKeypoint(frame.previousPoses[1], "nose").x = Num(80)
    /\ frame.ret.keypoints[2].x = Num(65)

----------------------------------------------------------------------------
(* The detection loop (SpecLoop) *)

\* the step processes a delivered pose
PoseProcessed == calls' = calls + 1

Min(a, b) == IF a < b THEN a ELSE b

\* the last n elements of a sequence
Newest(poses, n) == [i \in 1..n |-> poses[Len(poses) - n + i]]

C28_NoClassificationOnceInactive ==
    [][(~frame.isActive \/ ~frame.mounted) =>
          (calls' = calls /\ jerkFSMState'.repCount = jerkFSMState.repCount)]_vars

\* C29: at any time at most one detection loop is alive, also when the
\* effect is torn down and restarted while estimatePoses is pending.
C29_AtMostOneLoop == Cardinality(frame.loops) <= 1

\* C30: the smoothing settings of the user reach the smoothing filter
\* unchanged: smoothPose is called with the useConfidenceWeighting and the
\* smoothingFactor of the settings its closure was rendered with.
C30_SettingsReachTheFilter ==
    frame.smoothing.called =>
        /\ frame.smoothing.useConfidenceWeighting
              = frame.smoothing.settings.useConfidenceWeighting
        /\ frame.smoothing.smoothingFactor = frame.smoothing.settings.smoothingFactor

----------------------------------------------------------------------------
(* Form analysis (SpecForm): the last call was analyzeForm(frame.pose,      *)
(* frame.currentPhase, frame.minConfidence) and returned frame.ret.         *)

Analyzed == frame.op = "analyze"

IssueIds(issues) == {issues[i].id : i \in DOMAIN issues}

\* how many of the issues are of that severity
CountOf(issues, severity) ==
    Cardinality({i \in DOMAIN issues : issues[i].severity = severity})

\* the landmarks each check reads
LandmarksOf(id) ==
    CASE id = "rack_left_elbow_position" ->
            {"left_elbow", "left_hip", "left_shoulder", "right_shoulder"}
      [] id = "rack_right_elbow_position" ->
            {"right_elbow", "right_hip", "left_shoulder", "right_shoulder"}
      [] id = "rack_left_wrist_height" ->
            {"left_wrist", "left_shoulder", "right_shoulder"}
      [] id = "rack_right_wrist_height" ->
            {"right_wrist", "left_shoulder", "right_shoulder"}
      [] id \in {"dip_too_shallow", "dip_too_deep"} ->
            {"left_hip", "left_knee", "left_ankle"}
      [] id = "dip_uneven_knees" ->
            {"left_hip", "left_knee", "left_ankle", "right_hip", "right_knee", "right_ankle"}
      [] id = "dip_leaning_forward" ->
            {"left_shoulder", "right_shoulder", "left_hip", "right_hip"}
      [] id = "drive_uneven_arms" ->
            {"left_shoulder", "left_elbow", "left_wrist",
             "right_shoulder", "right_elbow", "right_wrist"}
      [] id = "drive_incomplete_leg_extension" ->
            {"left_hip", "left_knee", "right_hip", "right_knee"}
      [] id = "lockout_left_arm_not_extended" ->
            {"left_shoulder", "left_elbow", "left_wrist"}
      [] id = "lockout_right_arm_not_extended" ->
            {"right_shoulder", "right_elbow", "right_wrist"}
      [] id = "lockout_uneven_wrists" ->
            {"left_wrist", "right_wrist", "left_shoulder", "right_shoulder"}
      [] id = "lockout_left_arm_not_vertical" -> {"left_wrist", "left_shoulder"}
      [] id = "lockout_right_arm_not_vertical" -> {"right_wrist", "right_shoulder"}

\* the landmark is present and scored at least minConfidence
Detected(pose, name, minConfidence) ==
    /\ pose # NullPose
    /\ "keypoints" \in DOMAIN pose
    /\ name \in DOMAIN pose.keypoints
    /\ "score" \in DOMAIN pose.keypoints[name]
    /\ pose.keypoints[name].score >= minConfidence

\* C22: analyzeForm with phase Unknown returns no issues and overallScore 100
\* for every pose and every minConfidence.
C22_UnknownPhaseIsFlawless ==
    (Analyzed /\ frame.currentPhase = "unknown")
        => (frame.ret.issues = << >> /\ frame.ret.overallScore = 100)

\* a pose that fails checks in every known phase, analysed in no phase
C22_Witness ==
    /\ Analyzed
    /\ frame.currentPhase = "unknown"
    /\ frame.pose = FaultyPose
    /\ frame.ret.overallScore = 100

\* C23: overallScore is 100 minus 5 per Low, 10 per Moderate and 20 per High
\* issue of the returned list, clamped to [0, 100]; it lies within [0, 100]
\* and, being a function of the three counts, does not depend on the order
\* of the issues.
C23_ScoreIsHundredMinusDeductions ==
    Analyzed =>
        LET raw == 100 - (5 * CountOf(frame.ret.issues, "low")
                            + 10 * CountOf(frame.ret.issues, "moderate")
                            + 20 * CountOf(frame.ret.issues, "high"))
        IN  /\ frame.ret.overallScore = (IF raw < 0 THEN 0 ELSE IF raw > 100 THEN 100 ELSE raw)
            /\ frame.ret.overallScore \in 0..100
            /\ CountOf(frame.ret.issues, "low") + CountOf(frame.ret.issues, "moderate")
                  + CountOf(frame.ret.issues, "high") = Len(frame.ret.issues)

\* a lockout with one High and three Moderate issues, scored 50
C23_Witness ==
    /\ Analyzed
    /\ CountOf(frame.ret.issues, "high") = 1
    /\ CountOf(frame.ret.issues, "moderate") = 3
    /\ frame.ret.issues[1].severity = "high"
    /\ frame.ret.overallScore = 50

\* the pose with every landmark scored 100
FullyScored(pose) ==
    [pose EXCEPT !.keypoints =
        [n \in DOMAIN pose.keypoints |->
            Keypoint(n, pose.keypoints[n].x, pose.keypoints[n].y, 100)]]

\* every landmark the classifier requires is in the pose
Complete(pose) ==
    /\ pose # NullPose
    /\ "keypoints" \in DOMAIN pose
    /\ Range(requiredKeypoints) \subseteq DOMAIN pose.keypoints

\* C24: a check is skipped exactly when one of the landmarks it uses itself
\* is absent or below minConfidence: an issue that the same landmarks raise
\* when all are trusted is raised as soon as the landmarks of its own check
\* are trusted, whatever the confidence of the others.
C24_ChecksAreSkippedPerLandmark ==
    (Analyzed /\ Complete(frame.pose)) =>
        \A id \in IssueIds(PhaseIssues(FullyScored(frame.pose), frame.currentPhase,
                                       frame.minConfidence)) :
            (\A n \in LandmarksOf(id) : Detected(frame.pose, n, frame.minConfidence))
                => id \in IssueIds(frame.ret.issues)

\* C25: no issue comes from a check that uses a landmark which is absent or
\* scored below minConfidence, so such a landmark costs no score; a lockout
\* pose whose wrist has confidence 0 yields no issue that reads that wrist.
C25_NoIssueFromUndetectedLandmark ==
    Analyzed =>
        \A i \in DOMAIN frame.ret.issues :
            \A n \in LandmarksOf(frame.ret.issues[i].id) :
                Detected(frame.pose, n, frame.minConfidence)

\* the faulty pose in lockout with the left wrist at confidence 0
C25_Witness ==
    /\ Analyzed
    /\ frame.currentPhase = "lockout"
    /\ frame.pose = WithScore(FaultyPose, "left_wrist", 0)
    /\ frame.ret.overallScore = 100

\* how far the line from hip midpoint to shoulder midpoint is off the
\* vertical, in centidegrees
LeanOffVertical(pose) ==
    Abs(atan2((pose.keypoints.left_shoulder.x + pose.keypoints.right_shoulder.x)
                - (pose.keypoints.left_hip.x + pose.keypoints.right_hip.x),
              (pose.keypoints.left_hip.y + pose.keypoints.right_hip.y)
                - (pose.keypoints.left_shoulder.y + pose.keypoints.right_shoulder.y)))

\* C26: in Dip phase "Keep torso more upright" is raised only when the torso
\* leans more than 15 degrees off the vertical; a torso whose shoulder
\* midpoint is straight above the hip midpoint never gets it.
C26_LeanIssueOnlyBeyondFifteenDegrees ==
    (Analyzed /\ frame.currentPhase = "dip"
        /\ "dip_leaning_forward" \in IssueIds(frame.ret.issues))
            => LeanOffVertical(frame.pose) > Deg(15)

----------------------------------------------------------------------------
(* Holding the lockout (SpecDwell) *)

\* the frame is trusted and classified lockout while the phase was lockout
StaysInLockout ==
    TrustedFrame /\ pre.currentPhase = "lockout" /\ NewPhase = "lockout"

\* C31: of consecutive confident frames classified lockout only the first
\* can increment repCount, also when a later one arrives after
\* minRepDuration has elapsed and the entry was rejected by the debounce;
\* the count rises only on a frame that enters lockout from another phase.
C31_RejectedLockoutEntryIsLost ==
    /\ StaysInLockout =>
          /\ jerkFSMState.repCount = pre.repCount
          /\ jerkFSMState.lastRepTime = pre.lastRepTime
    /\ (Processed /\ jerkFSMState.repCount # pre.repCount) =>
          /\ pre.currentPhase # "lockout"
          /\ jerkFSMState.currentPhase = "lockout"

\* the lockout was entered within the debounce window of the repetition
\* before (the entry is stamped later than the last count), the pose is
\* still lockout more than minRepDuration after that repetition, and the
\* count stays
C31_Witness ==
    /\ StaysInLockout
    /\ pre.repCount = 1
    /\ pre.lastRepTime < pre.lastTransitionTime
    /\ clock - pre.lastRepTime > frame.config.minRepDuration
    /\ jerkFSMState.repCount = 1

----------------------------------------------------------------------------
(* Order of the two timestamps (Spec) *)

\* the frame incremented repCount
Counted == Processed /\ jerkFSMState.repCount > pre.repCount

\* C32: in every reachable classifier state lastRepTime is not later than
\* lastTransitionTime, and a frame that increments repCount sets both
\* timestamps to its time now and leaves currentPhase at lockout.
C32_LastRepNotAfterLastTransition ==
    /\ jerkFSMState.lastRepTime <= jerkFSMState.lastTransitionTime
    /\ Counted =>
          /\ jerkFSMState.lastRepTime = clock
          /\ jerkFSMState.lastTransitionTime = clock
          /\ jerkFSMState.currentPhase = "lockout"

\* the second repetition is counted: both timestamps move from the time
\* of the first repetition and of the transition after it to now
C32_Witness ==
    /\ Counted
    /\ pre.repCount = 1
    /\ pre.lastRepTime < pre.lastTransitionTime
    /\ pre.lastTransitionTime < clock
    /\ jerkFSMState.lastRepTime = clock
    /\ jerkFSMState.lastTransitionTime = clock

----------------------------------------------------------------------------
(* Overlap of the phase predicates (SpecClassify) *)

\* C33 as amended: with lockoutAngleThreshold >= 150 no frame satisfies
\* the lockout and the drive predicate together, and with
\* dipDepthThreshold >= 0 none satisfies the drive and the dip predicate
\* together; the lockout and the dip predicate can hold together, and the
\* priority order then assigns lockout.
C33_DriveOverlapsNeitherLockoutNorDip ==
    TrustedFrame =>
        /\ frame.config.lockoutAngleThreshold >= 150 => ~(LockoutHolds /\ DriveHolds)
        /\ frame.config.dipDepthThreshold >= 0 => ~(DriveHolds /\ DipHolds)
        /\ (LockoutHolds /\ DipHolds) => jerkFSMState.currentPhase = "lockout"

\* under the default configuration the arms are locked out overhead while
\* the knee bends by more than dipDepthThreshold: lockout wins the tie
C33_Witness ==
    /\ TrustedFrame
    /\ frame.config = defaultJerkFSMConfig
    /\ LockoutHolds
    /\ DipHolds
    /\ ~DriveHolds
    /\ jerkFSMState.currentPhase = "lockout"

\* C33 as stated: in addition, under the default configuration at most one
\* of the lockout, drive and dip predicates holds for a frame, so the
\* priority order has no tie to break among them.
C33_NoTieUnderDefaultConfig ==
    /\ C33_DriveOverlapsNeitherLockoutNorDip
    /\ (TrustedFrame /\ frame.config = defaultJerkFSMConfig) =>
          /\ ~(LockoutHolds /\ DriveHolds)
          /\ ~(DriveHolds /\ DipHolds)
          /\ ~(LockoutHolds /\ DipHolds)

----------------------------------------------------------------------------
(* Range of the form score (SpecForm) *)

\* C34: for every pose, phase and minConfidence overallScore is a multiple
\* of 10 and at least 30; no Low issue is emitted, the dip checks too
\* shallow and too deep are never both raised, and the total deduction is
\* at most 70 (two High and three Moderate, in lockout).
C34_ScoreIsMultipleOfTenFromThirty ==
    Analyzed =>
        /\ frame.ret.overallScore % 10 = 0
        /\ frame.ret.overallScore >= 30
        /\ CountOf(frame.ret.issues, "low") = 0
        /\ ~({"dip_too_shallow", "dip_too_deep"} \subseteq IssueIds(frame.ret.issues))
        /\ 20 * CountOf(frame.ret.issues, "high")
              + 10 * CountOf(frame.ret.issues, "moderate") <= 70
        /\ Len(frame.ret.issues) = 5 =>
              /\ frame.currentPhase = "lockout"
              /\ CountOf(frame.ret.issues, "high") = 2
              /\ CountOf(frame.ret.issues, "moderate") = 3

\* a lockout that fails all five checks and is scored 30
C34_Witness ==
    /\ Analyzed
    /\ frame.currentPhase = "lockout"
    /\ Len(frame.ret.issues) = 5
    /\ frame.ret.overallScore = 30

----------------------------------------------------------------------------
(* The legacy counter (SpecLegacy) *)

\* the last call was analyzeJerkMovement
LegacyCall == frame.op = "frame"

\* its pose had six arm landmarks scored at least the threshold
LegacyTrusted == LegacyCall /\ ArmsConfident(frame.pose, frame.config)

\* C35: after a frame with six confident arm landmarks isUp is the overhead
\* status of the frame; repCount changes only by rising by 1, on the first
\* frame of a run of overhead frames (counted from the last resetCounter)
\* when more than 500 ms passed since the last counted repetition, and it
\* does rise then; a frame with a missing or low-confidence arm landmark
\* leaves the whole counter state unchanged.
C35_LegacyCountsFirstOverheadFrame ==
    /\ LegacyTrusted =>
          /\ frame.jerkState.isUp = isOverhead(frame.pose, frame.config)
          /\ frame.jerkState.isUp = (frame.run > 0)
          /\ frame.jerkState.repCount # frame.before.repCount <=>
                /\ frame.run = 1
                /\ clock - frame.before.lastRepTime > 500
          /\ frame.jerkState.repCount # frame.before.repCount =>
                /\ frame.jerkState.repCount = frame.before.repCount + 1
                /\ frame.jerkState.lastRepTime = clock
          /\ frame.jerkState.repCount = frame.before.repCount =>
                frame.jerkState.lastRepTime = frame.before.lastRepTime
    /\ (LegacyCall /\ ~LegacyTrusted) =>
          /\ frame.jerkState = frame.before
          /\ frame.ret = frame.before.repCount

\* a run whose first frame was rejected by the debounce goes on: the
\* repetition before was counted 1000 ms ago, the run began 400 ms after
\* it, and its second frame, 600 ms later, is not counted
C35_Witness ==
    /\ LegacyTrusted
    /\ frame.run = 2
    /\ frame.before.repCount = 1
    /\ frame.before.isUp
    /\ clock - frame.before.lastRepTime = 1000
    /\ frame.jerkState.repCount = 1

----------------------------------------------------------------------------
(* Range of the smoothed coordinates (SpecRange) *)

\* a <= b for two fractions; false as soon as one of them is not a number
RatLeq(a, b) == a[2] > 0 /\ b[2] > 0 /\ a[1] * b[2] <= b[1] * a[2]

\* the samples that enter the average: all of the history in uniform mode,
\* the confident ones in weighted mode, and the current landmark
Contributing ==
    {frame.currentKeypoint}
        \cup {frame.previousKeypoints[i] : i \in
                 {i \in DOMAIN frame.previousKeypoints :
                     \/ ~frame.useConfidenceWeighting
                     \/ IsConfident(frame.previousKeypoints[i], frame.minConfidence)}}

WithinObserved(axis) ==
    /\ \E kp \in Contributing : RatLeq(kp[axis], frame.ret[axis])
    /\ \E kp \in Contributing : RatLeq(frame.ret[axis], kp[axis])

\* C36: for a smoothing factor in [0, 1] and non-negative scores every
\* smoothed coordinate lies between the least and the greatest of the
\* current coordinate and the historical coordinates that enter the
\* average, in uniform and in weighted mode.
C36_SmoothedStaysWithinObserved ==
    frame.op = "keypoint" => (WithinObserved("x") /\ WithinObserved("y"))

====
